---- MODULE Spec2Model ----
(***************************************************************************)
(* Model of azul's GPU texture registry, shader construction and stand-in  *)
(* driver (azul-core/gl.rs) and of its display list building               *)
(* (azul/display_list.rs), and of the text input widget                    *)
(* (azul-widgets/text_input.rs).                                           *)
(*                                                                         *)
(* The specifications share the module:                                    *)
(*   Spec          the process-wide ACTIVE_GL_TEXTURES table               *)
(*   SpecOrder     determine_rendering_order on a bounded node tree        *)
(*   SpecScroll    get_nodes_that_need_scroll_clip on a bounded layout     *)
(*   SpecScrollIds get_nodes_that_need_scroll_clip on two frames of a tree *)
(*   SpecFrame     push_rectangles_into_displaylist on a styled node       *)
(*   SpecStyle     display_list_from_ui_description with style overrides   *)
(*   SpecShader    GlShader::new                                           *)
(*   SpecCallback  the GPU texture callbacks invoked during layout         *)
(*   SpecVirtual   calls on the VirtualGlDriver                            *)
(*   SpecLifetime  a Texture registered, looked up, evicted on a driver    *)
(*   SpecClip      node_needs_to_clip_children on a RectLayout             *)
(*   SpecDraw      GlShader::draw on a saved and restored GL context       *)
(*   SpecIFrame    layout and display list walk over embedded DOMs         *)
(*   SpecTextInput   the text input handlers from the default state          *)
(*   SpecTextEdit    the text input handlers from any state built            *)
(*   SpecTextBuilder the builder methods of the TextInput widget             *)
(***************************************************************************)
EXTENDS Integers, Sequences, FiniteSets, TLC

VARIABLES
    \* ---- texture registry (azul-core/gl.rs) ----
    ACTIVE_GL_TEXTURES,   \* Option<FastHashMap<PipelineId, GlTextureStorage>>
    last_external_image_id, \* counter behind ExternalImageId::new()
    gl_live_textures,     \* texture names the driver currently holds alive
    delete_calls,         \* per registration: delete_textures calls issued by its Drop
    registered,           \* log of register calls: <<[id, pipeline_id, epoch, texture]>>
    open_batch,           \* registrations (log indexes) made since the last eviction call
    paired,               \* pairs of log indexes: same pipeline and epoch, no eviction between
    last_call,            \* the registry operation that produced this state
    \* ---- rendering order (azul/display_list.rs) ----
    node_hierarchy,       \* [parent -> sequence of children in sibling order]
    position,             \* rectangles[id].layout.position per node
    order_pc,             \* position of determine_rendering_order
    parents_todo,         \* parents not yet handled by the map() over the parents
    children_sorted,      \* BTreeMap<NodeId, Vec<NodeId>>
    root_content_group,   \* the ContentGroup returned
    \* ---- scroll clip (azul/display_list.rs) ----
    scroll_hierarchy,     \* [parent -> sequence of children]
    layouted_rects,       \* per node: [bounds, overflow]
    scroll_pc,            \* position of get_nodes_that_need_scroll_clip
    scroll_parents,       \* the rest of the `parents` slice
    overflowing_nodes,    \* BTreeMap<NodeId, OverflowingScrollNode>
    scroll_visited,       \* parents the loop has handled so far
    display_list_rects,   \* per node: [tag], the hit-test tag of its DisplayRectangle
    dom_rects,            \* per node: the content of its NodeData
    scroll_pipeline_id,   \* the pipeline the analyzer is run for
    tags_to_node_ids,     \* BTreeMap<ScrollTagId, NodeId>
    scroll_tag_counter,   \* counter behind ScrollTagId::new()
    scroll_run,           \* 1 for the first frame, 2 for the frame after the rebuild
    first_scrolled,       \* overflowing_nodes as the first frame returned it
    node_id_map,          \* node id of the first frame -> node id of the second
    \* ---- display list builder (azul/display_list.rs) ----
    referenced_content,   \* what the builder reads: rectangles, node data, layout, resources
    display_list_msgs,    \* per node: the DisplayListMsg push_rectangles_into_displaylist returned
    frame_pc,             \* position of the walk over the content groups
    \* ---- display rectangles and style overrides (azul/display_list.rs) ----
    ui_description,       \* [styled_nodes: per node its css_constraints, dynamic_css_overrides]
    feature_logging,      \* whether the crate is built with the "logging" feature
    display_rect_arena,   \* per node: the DisplayRectangle [style, layout] built so far
    override_warnings,    \* Vec<OverrideWarning> collected by the transform
    error_log,            \* what error!() has written
    style_pc,             \* position of display_list_from_ui_description
    \* ---- GlShader::new (azul-core/gl.rs) ----
    shader_env,           \* what the driver and the build do: compiler, compile and link results
    gl_objects,           \* shader objects and programs alive in the GL context
    shader_created,       \* the objects this call of GlShader::new created
    shader_stages,        \* the stages this call attempted, in order
    shader_result,        \* None while running, then Ok(program) or Err(error)
    shader_pc,            \* position of GlShader::new
    \* ---- GPU texture callbacks during layout (azul/display_list.rs) ----
    gl_state,             \* [framebuffer, framebuffer_srgb, multisample, texture_2d]
    gltexture_callbacks,  \* the callbacks the loop has not invoked yet (node ids)
    callback_left,        \* the GL state each invoked callback left behind, and what it returned
    solved_textures,      \* BTreeMap<NodeId, Texture> of the textures returned
    callback_pc,          \* position of the loop over the callbacks
    \* ---- stand-in driver (azul-core/gl.rs) ----
    virtual_gl_call,      \* the call made on the VirtualGlDriver and how it ended
    \* ---- lifetime of a Texture on either driver (azul-core/gl.rs) ----
    texture_gl_context,   \* the driver behind Texture::gl_context: "GlFns" or "VirtualGlDriver"
    texture_lookup,       \* the last get_opengl_texture call: None, or Some([image_key, found])
    \* ---- node_needs_to_clip_children (azul/display_list.rs) ----
    clip_layout,          \* the RectLayout asked about: [overflow_x, overflow_y]
    clip_result,          \* None, or Some(what node_needs_to_clip_children returned)
    \* ---- GlShader::draw (azul-core/gl.rs) ----
    draw_gl,              \* the OpenGL context: bindings, MULTISAMPLE flag and the objects alive
    draw_entry,           \* draw_gl as it was when GlShader::draw was called
    draw_buffers,         \* the `buffers` argument: <<[vao_id, index_buffer_id]>>
    draw_env,             \* what the driver answers to get_integer_v(gl::TEXTURE_2D)
    draw_locals,          \* the locals of draw: the current_* values saved and the ids generated
    draw_returned,        \* None, or Some(texture_id of the Texture returned)
    draw_pc,              \* position of GlShader::draw
    \* ---- embedded DOMs: layout recursion and display list walk (azul/display_list.rs) ----
    ui_state_cache,       \* BTreeMap<DomId, UiState>: <<[node_types, children]>>, DomId d at index d + 1
    iframe_mappings,      \* BTreeMap<(DomId, NodeId), DomId>
    iframe_callbacks,     \* the IFrame callbacks the layout recursion has still to invoke: <<(DomId, NodeId)>>
    walk_stack,           \* the calls of push_rectangles_into_displaylist still to be made: <<(DomId, NodeId)>>
    walk_visits,          \* the (DomId, NodeId) pairs displaylist_handle_rect was called for, in order
    walk_entered,         \* the recursions made on IFrame nodes: [from, to]
    iframe_pc,            \* "idle", "layout", "build" or "done"
    \* ---- text input widget (azul-widgets/text_input.rs) ----
    text_input_state,     \* TextInputState: [text, selection, cursor_pos]
    text_input_widget,    \* TextInput: [on_text_input, on_virtual_key_down] (state is text_input_state)
    text_event,           \* the last call: the KeyboardState a handler got, or the builder method and callback
    text_outcome          \* how the last handler call ended: Returns(CallbackReturn) or Panics

registry_vars == <<ACTIVE_GL_TEXTURES, last_external_image_id, gl_live_textures,
                   delete_calls, registered, open_batch, paired, last_call>>
order_vars    == <<node_hierarchy, position, order_pc, parents_todo,
                   children_sorted, root_content_group>>
scroll_vars   == <<scroll_hierarchy, layouted_rects, scroll_pc, scroll_parents,
                   overflowing_nodes, scroll_visited, display_list_rects, dom_rects,
                   scroll_pipeline_id, tags_to_node_ids, scroll_tag_counter,
                   scroll_run, first_scrolled, node_id_map>>
frame_vars    == <<referenced_content, display_list_msgs, frame_pc>>
style_vars    == <<ui_description, feature_logging, display_rect_arena, override_warnings,
                   error_log, style_pc>>
shader_vars   == <<shader_env, gl_objects, shader_created, shader_stages, shader_result,
                   shader_pc>>
callback_vars == <<gl_state, gltexture_callbacks, callback_left, solved_textures, callback_pc>>
virtual_vars  == <<virtual_gl_call>>
lifetime_vars == <<texture_gl_context, texture_lookup>>
clip_vars == <<clip_layout, clip_result>>
draw_vars == <<draw_gl, draw_entry, draw_buffers, draw_env, draw_locals, draw_returned, draw_pc>>
iframe_vars == <<ui_state_cache, iframe_mappings, iframe_callbacks, walk_stack, walk_visits, walk_entered, iframe_pc>>
text_vars == <<text_input_state, text_input_widget, text_event, text_outcome>>
vars == <<registry_vars, order_vars, scroll_vars, frame_vars, style_vars, shader_vars,
          callback_vars, virtual_vars, lifetime_vars, clip_vars, draw_vars, iframe_vars,
          text_vars>>

----------------------------------------------------------------------------
(* Bounds of the model *)

MaxRegistrations == 3   \* register calls per behaviour
MaxNodes == 4           \* nodes of the tree given to the order resolver

PipelineIds == {1, 2}    \* two windows
Epochs == {5, 7}         \* the frames textures are registered in
Watermarks == {5, 6, 7}  \* the epochs evictions are asked for
\* texture names the driver can hand out (one more than can be alive at once)
TextureNames == 1..(MaxRegistrations + 1)

----------------------------------------------------------------------------
(* Option and hash map helpers *)

None == [tag |-> "None"]
Some(v) == [tag |-> "Some", val |-> v]
is_none(o) == o.tag = "None"
is_some(o) == o.tag = "Some"

EmptyMap == [k \in {} |-> {}]
MapInsert(m, k, v) == [x \in (DOMAIN m) \cup {k} |-> IF x = k THEN v ELSE m[x]]
MapRemove(m, k) == [x \in (DOMAIN m) \ {k} |-> m[x]]
\* HashMap::entry(k).or_insert_with(|| FastHashMap::new())
EntryOrInsertEmpty(m, k) == IF k \in DOMAIN m THEN m ELSE MapInsert(m, k, EmptyMap)

----------------------------------------------------------------------------
(* Texture registry: azul-core/gl.rs *)

\* last_call: the operation, its arguments, the id it returned, whether the table
\* was None when it was called, and how many Texture values it dropped
Call(op, pipeline_id, epoch, ret, dropped) ==
    [op |-> op, pipeline_id |-> pipeline_id, epoch |-> epoch, ret |-> ret,
     was_none |-> is_none(ACTIVE_GL_TEXTURES), dropped |-> Cardinality(dropped)]
NoCall == [op |-> "init", pipeline_id |-> 0, epoch |-> 0, ret |-> 0, was_none |-> TRUE,
           dropped |-> 0]

\* ExternalImageId::new(): a process-wide counter, each call returns a fresh value
ExternalImageId_new == last_external_image_id

\* A Texture value: the raw GL name, its size, and the identity of the Rust
\* object (obj), which is what ownership and Drop are about.
Texture(name, size, obj) == [texture_id |-> name, size |-> size, obj |-> obj]

\* every (pipeline, epoch, id, texture) the table holds
Entries(active) ==
    IF is_none(active) THEN {}
    ELSE { [pipeline_id |-> p, epoch |-> e, id |-> i, texture |-> active.val[p][e][i]] :
             <<p, e, i>> \in { <<p, e, i>> \in PipelineIds \X Epochs \X (0..MaxRegistrations + 1) :
                                 /\ p \in DOMAIN active.val
                                 /\ e \in DOMAIN active.val[p]
                                 /\ i \in DOMAIN active.val[p][e] } }

\* the textures held by one GlTextureStorage (all epochs of a pipeline)
StorageTextures(storage) ==
    UNION { { storage[e][i] : i \in DOMAIN storage[e] } : e \in DOMAIN storage }

\* impl Drop for Texture: self.gl_context.delete_textures(&[self.texture_id]),
\* once for every Texture value in `dropped`
DropLive(dropped, live) == live \ { t.texture_id : t \in dropped }
\* faulty variant: a Texture without its Drop, no delete call is issued
DropLeaking(dropped, calls) == calls
DropCalls(dropped, calls) ==
    [o \in DOMAIN calls |-> IF \E t \in dropped : t.obj = o THEN calls[o] + 1 ELSE calls[o]]

\* faulty variant: the search stops after the epochs of one pipeline
get_opengl_texture_first_pipeline(image_key) ==
    IF is_none(ACTIVE_GL_TEXTURES) THEN {None}
    ELSE LET found == { n \in Entries(ACTIVE_GL_TEXTURES) :
                          n.id = image_key /\ n.pipeline_id = 1 }
         IN IF found = {} THEN {None}
            ELSE { Some(<<n.texture.texture_id,
                          <<n.texture.size.width, n.texture.size.height>>>>) : n \in found }
\* get_opengl_texture: find_map over the epochs of all pipelines. The iteration
\* order of a HashMap is unspecified, so the result is any entry with that key.
get_opengl_texture(image_key) ==
    IF is_none(ACTIVE_GL_TEXTURES) THEN {None}
    ELSE LET found == { n \in Entries(ACTIVE_GL_TEXTURES) : n.id = image_key }
         IN IF found = {} THEN {None}
            ELSE { Some(<<n.texture.texture_id,
                          <<n.texture.size.width, n.texture.size.height>>>>) : n \in found }

\* the body of insert_into_active_gl_textures once the id is minted
InsertWithId(external_image_id, pipeline_id, epoch, texture) ==
    LET init == IF is_none(ACTIVE_GL_TEXTURES) THEN EmptyMap ELSE ACTIVE_GL_TEXTURES.val
        active_textures == EntryOrInsertEmpty(init, pipeline_id)
        active_epochs == EntryOrInsertEmpty(active_textures[pipeline_id], epoch)
        active_textures_for_epoch == active_epochs[epoch]
        \* HashMap::insert returns the value it replaces, which is dropped here
        replaced == IF external_image_id \in DOMAIN active_textures_for_epoch
                    THEN {active_textures_for_epoch[external_image_id]} ELSE {}
        n == Len(registered) + 1
    IN /\ ACTIVE_GL_TEXTURES' = Some(MapInsert(active_textures, pipeline_id,
                MapInsert(active_epochs, epoch,
                    MapInsert(active_textures_for_epoch, external_image_id, texture))))
       /\ last_external_image_id' = last_external_image_id + 1
       /\ gl_live_textures' = DropLive(replaced, gl_live_textures \cup {texture.texture_id})
       /\ delete_calls' = DropCalls(replaced, MapInsert(delete_calls, texture.obj, 0))
       /\ registered' = Append(registered, [id |-> external_image_id,
                              pipeline_id |-> pipeline_id, epoch |-> epoch, texture |-> texture])
       /\ paired' = paired \cup { {i, n} : i \in { j \in open_batch :
                              /\ registered[j].pipeline_id = pipeline_id
                              /\ registered[j].epoch = epoch } }
       /\ open_batch' = open_batch \cup {n}
       /\ last_call' = Call("insert", pipeline_id, epoch, external_image_id, replaced)

\* faulty variant: the id of the previous call is used instead of a new one
insert_reusing_last_id(pipeline_id, epoch, texture) ==
    InsertWithId(IF last_external_image_id = 0 THEN 0 ELSE last_external_image_id - 1,
                 pipeline_id, epoch, texture)
insert_into_active_gl_textures(pipeline_id, epoch, texture) ==
    InsertWithId(ExternalImageId_new, pipeline_id, epoch, texture)

\* what every eviction call does to the rest of the state
Evicted(new_active, dropped, op, pipeline_id, epoch) ==
    /\ ACTIVE_GL_TEXTURES' = new_active
    /\ gl_live_textures' = DropLive(dropped, gl_live_textures)
    /\ delete_calls' = DropCalls(dropped, delete_calls)
    /\ open_batch' = {}
    /\ last_call' = Call(op, pipeline_id, epoch, 0, dropped)
    /\ UNCHANGED <<last_external_image_id, registered, paired>>

\* faulty variant: only the newest epoch of the pipeline is removed
remove_pipeline_newest_epoch_only(pipeline_id) ==
    IF is_none(ACTIVE_GL_TEXTURES) \/ pipeline_id \notin DOMAIN ACTIVE_GL_TEXTURES.val
    THEN Evicted(ACTIVE_GL_TEXTURES, {}, "remove_pipeline", pipeline_id, 0)
    ELSE LET active_textures == ACTIVE_GL_TEXTURES.val
             storage == active_textures[pipeline_id]
             newest == { e \in DOMAIN storage : \A f \in DOMAIN storage : f <= e }
             kept == [e \in (DOMAIN storage) \ newest |-> storage[e]]
         IN Evicted(Some(MapInsert(active_textures, pipeline_id, kept)),
                    StorageTextures([e \in newest |-> storage[e]]),
                    "remove_pipeline", pipeline_id, 0)
\* faulty variant: the storages of all pipelines are removed
remove_active_pipeline_and_others(pipeline_id) ==
    IF is_none(ACTIVE_GL_TEXTURES)
    THEN Evicted(ACTIVE_GL_TEXTURES, {}, "remove_pipeline", pipeline_id, 0)
    ELSE Evicted(Some(EmptyMap), { n.texture : n \in Entries(ACTIVE_GL_TEXTURES) },
                 "remove_pipeline", pipeline_id, 0)
gl_textures_remove_active_pipeline(pipeline_id) ==
    IF is_none(ACTIVE_GL_TEXTURES)
    THEN Evicted(ACTIVE_GL_TEXTURES, {}, "remove_pipeline", pipeline_id, 0)
    ELSE LET active_textures == ACTIVE_GL_TEXTURES.val
             \* HashMap::remove returns the removed storage, dropped at once
             dropped == IF pipeline_id \in DOMAIN active_textures
                        THEN StorageTextures(active_textures[pipeline_id]) ELSE {}
         IN Evicted(Some(MapRemove(active_textures, pipeline_id)), dropped,
                    "remove_pipeline", pipeline_id, 0)

\* faulty variant: one entry is taken out of every epoch that should go
remove_epochs_one_entry_each(pipeline_id, epoch) ==
    IF is_none(ACTIVE_GL_TEXTURES) \/ pipeline_id \notin DOMAIN ACTIVE_GL_TEXTURES.val
    THEN Evicted(ACTIVE_GL_TEXTURES, {}, "remove_epochs", pipeline_id, epoch)
    ELSE LET active_textures == ACTIVE_GL_TEXTURES.val
             active_epochs == active_textures[pipeline_id]
             hit == { e \in DOMAIN active_epochs : ~(e > epoch) /\ DOMAIN active_epochs[e] # {} }
             victim(e) == CHOOSE i \in DOMAIN active_epochs[e] :
                              \A j \in DOMAIN active_epochs[e] : i <= j
         IN Evicted(Some(MapInsert(active_textures, pipeline_id,
                        [e \in DOMAIN active_epochs |->
                            IF e \in hit THEN MapRemove(active_epochs[e], victim(e))
                            ELSE active_epochs[e]])),
                    { active_epochs[e][victim(e)] : e \in hit },
                    "remove_epochs", pipeline_id, epoch)
gl_textures_remove_epochs_from_pipeline(pipeline_id, epoch) ==
    IF is_none(ACTIVE_GL_TEXTURES) \/ pipeline_id \notin DOMAIN ACTIVE_GL_TEXTURES.val
    THEN Evicted(ACTIVE_GL_TEXTURES, {}, "remove_epochs", pipeline_id, epoch)
    ELSE LET active_textures == ACTIVE_GL_TEXTURES.val
             active_epochs == active_textures[pipeline_id]
             \* active_epochs.retain(|gl_texture_epoch, _| *gl_texture_epoch > epoch)
             retained == { gl_texture_epoch \in DOMAIN active_epochs : gl_texture_epoch > epoch }
             removed == (DOMAIN active_epochs) \ retained
         IN Evicted(Some(MapInsert(active_textures, pipeline_id,
                                   [e \in retained |-> active_epochs[e]])),
                    StorageTextures([e \in removed |-> active_epochs[e]]),
                    "remove_epochs", pipeline_id, epoch)

\* faulty variant: the table is emptied but stays Some
clear_keeping_table ==
    Evicted(Some(EmptyMap), { n.texture : n \in Entries(ACTIVE_GL_TEXTURES) }, "clear", 0, 0)
\* ACTIVE_GL_TEXTURES = None drops the whole table
gl_textures_clear_opengl_cache ==
    Evicted(None, { n.texture : n \in Entries(ACTIVE_GL_TEXTURES) }, "clear", 0, 0)

\* Gl::gen_textures(1): a name the driver does not hold (the lowest one)
gen_textures ==
    CHOOSE name \in TextureNames \ gl_live_textures :
        \A other \in TextureNames \ gl_live_textures : name <= other

\* GlShader::draw builds the Texture the caller registers around a generated
\* name; the n-th texture drawn is n pixels wide, so no two have the same size.
NewTexture ==
    Texture(gen_textures, [width |-> Len(registered) + 1, height |-> 1], Len(registered) + 1)

RegistryInit ==
    /\ ACTIVE_GL_TEXTURES = None
    /\ last_external_image_id = 0
    /\ gl_live_textures = {}
    /\ delete_calls = EmptyMap
    /\ registered = <<>>
    /\ open_batch = {}
    /\ paired = {}
    /\ last_call = NoCall

Register ==
    /\ Len(registered) < MaxRegistrations
    /\ \E pipeline_id \in PipelineIds, epoch \in Epochs :
          insert_into_active_gl_textures(pipeline_id, epoch, NewTexture)
    /\ UNCHANGED <<order_vars, scroll_vars, frame_vars, style_vars, shader_vars, callback_vars,
                   virtual_vars, lifetime_vars, clip_vars, draw_vars, iframe_vars, text_vars>>
EvictOlderThan ==
    /\ \E pipeline_id \in PipelineIds, epoch \in Watermarks :
          gl_textures_remove_epochs_from_pipeline(pipeline_id, epoch)
    /\ UNCHANGED <<order_vars, scroll_vars, frame_vars, style_vars, shader_vars, callback_vars,
                   virtual_vars, lifetime_vars, clip_vars, draw_vars, iframe_vars, text_vars>>
EvictPipeline ==
    /\ \E pipeline_id \in PipelineIds : gl_textures_remove_active_pipeline(pipeline_id)
    /\ UNCHANGED <<order_vars, scroll_vars, frame_vars, style_vars, shader_vars, callback_vars,
                   virtual_vars, lifetime_vars, clip_vars, draw_vars, iframe_vars, text_vars>>
ClearAll ==
    /\ gl_textures_clear_opengl_cache
    /\ UNCHANGED <<order_vars, scroll_vars, frame_vars, style_vars, shader_vars, callback_vars,
                   virtual_vars, lifetime_vars, clip_vars, draw_vars, iframe_vars, text_vars>>


----------------------------------------------------------------------------
(* Texture registry: properties *)

Registrations == 1..Len(registered)
Resolves(image_key) == get_opengl_texture(image_key) # {None}
\* what lookup must return for the texture of registration i
Found(i) == Some(<<registered[i].texture.texture_id,
                   <<registered[i].texture.size.width, registered[i].texture.size.height>>>>)

\* C1: evictOlderThan(P, N) removes from P exactly the epochs strictly less
\* than N: afterwards no id registered under P with epoch < N resolves, and
\* every id registered under P with epoch >= N that resolved before the call
\* still resolves to the same texture.
C1_EvictOlderThanIsStrict ==
    [][ last_call'.op = "remove_epochs" =>
          \A i \in Registrations :
              registered[i].pipeline_id = last_call'.pipeline_id =>
                  /\ registered[i].epoch < last_call'.epoch =>
                         get_opengl_texture(registered[i].id)' = {None}
                  /\ (registered[i].epoch >= last_call'.epoch /\ Resolves(registered[i].id)) =>
                         get_opengl_texture(registered[i].id)' = {Found(i)} ]_vars

\* C2: right after register(P, E, texture), in any registry state, a lookup of
\* the returned id yields exactly the handle and size of that texture.
C2_RegisterLookupRoundTrip ==
    last_call.op = "insert" =>
        get_opengl_texture(last_call.ret) = {Found(Len(registered))}

\* C2 witness: a register into a table that holds a texture of the other
\* pipeline and has already seen an eviction
C2_Witness ==
    /\ last_call.op = "insert"
    /\ ~last_call.was_none
    /\ \E i \in Registrations : delete_calls[i] = 1
    /\ \E m \in Entries(ACTIVE_GL_TEXTURES) : m.pipeline_id # last_call.pipeline_id

\* C3: no two register calls return the same id, evicted ids included, and
\* an id resolves to nothing but the texture it was minted for.
C3_IdsNeverReused ==
    /\ \A i, j \in Registrations : i # j => registered[i].id # registered[j].id
    /\ \A i \in Registrations : get_opengl_texture(registered[i].id) \subseteq {None, Found(i)}

\* C3 witness: a register after an earlier id's texture was evicted, while the
\* driver gave the new texture the name of the evicted one
C3_Witness ==
    /\ last_call.op = "insert"
    /\ \E i \in Registrations :
          /\ delete_calls[i] = 1
          /\ registered[i].texture.texture_id = registered[Len(registered)].texture.texture_id
          /\ registered[i].pipeline_id = last_call.pipeline_id
          /\ registered[i].epoch = last_call.epoch

\* C4: right after evictPipeline(P) no id ever registered under P, at any
\* epoch, resolves.
C4_EvictPipelineRemovesAllEpochs ==
    last_call.op = "remove_pipeline" =>
        \A i \in Registrations :
            registered[i].pipeline_id = last_call.pipeline_id =>
                get_opengl_texture(registered[i].id) = {None}

\* C4 witness: evictPipeline(P) dropped textures of two epochs of P while an
\* id of the other pipeline still resolves
C4_Witness ==
    /\ last_call.op = "remove_pipeline"
    /\ last_call.dropped >= 2
    /\ \E i, j \in Registrations :
          /\ registered[i].pipeline_id = last_call.pipeline_id
          /\ registered[j].pipeline_id = last_call.pipeline_id
          /\ registered[i].epoch # registered[j].epoch
    /\ \E k \in Registrations : Resolves(registered[k].id)

\* C5: the table is None until the first register; clearAll leaves it None
\* with every id returned so far unresolvable; a register, also one issued
\* when the table is None after a clearAll, leaves it Some and its id resolves.
C5_RegistryLifecycle ==
    /\ registered = <<>> => is_none(ACTIVE_GL_TEXTURES)
    /\ last_call.op = "clear" =>
          /\ is_none(ACTIVE_GL_TEXTURES)
          /\ \A i \in Registrations : get_opengl_texture(registered[i].id) = {None}
    /\ last_call.op = "insert" =>
          /\ is_some(ACTIVE_GL_TEXTURES)
          /\ Resolves(last_call.ret)

\* C5 witness: a register that found the table None although ids had been
\* returned before, that is, the first register after a clearAll
C5_Witness ==
    /\ last_call.op = "insert"
    /\ last_call.was_none
    /\ Len(registered) >= 2
    /\ \E i \in Registrations : delete_calls[i] = 1

\* C6: a register leaves every id that resolved before it resolving to the
\* same texture, and two ids registered under the same pipeline and epoch with
\* no eviction call between the two registrations are always both resolvable
\* or both unresolvable.
C6_PairsLiveTogether ==
    \A pair \in paired : \A i, j \in pair :
        Resolves(registered[i].id) <=> Resolves(registered[j].id)
C6_RegisterKeepsEntries ==
    last_call'.op = "insert" /\ Len(registered') = Len(registered) + 1 =>
        \A i \in Registrations :
            Resolves(registered[i].id) =>
                get_opengl_texture(registered[i].id)' = get_opengl_texture(registered[i].id)
C6_AppendOnlyEpochScoped ==
    []C6_PairsLiveTogether /\ [][C6_RegisterKeepsEntries]_vars

\* C6 witness: a pair of ids of one epoch, evicted together while an id of a
\* newer epoch of the same pipeline survived
C6_Witness ==
    /\ last_call.op = "remove_epochs"
    /\ \E pair \in paired : \A i \in pair :
          /\ ~Resolves(registered[i].id)
          /\ registered[i].pipeline_id = last_call.pipeline_id
    /\ \E k \in Registrations :
          /\ registered[k].pipeline_id = last_call.pipeline_id
          /\ Resolves(registered[k].id)

\* C7: the delete-texture call of a registered texture is issued exactly when
\* an eviction (evictOlderThan, evictPipeline, clearAll) drops its entry: none
\* while its id resolves, one once it does not, and no other operation issues
\* one.
C7_DeletedOnceWhenDropped ==
    \A i \in Registrations :
        IF Resolves(registered[i].id)
        THEN delete_calls[i] = 0 /\ registered[i].texture.texture_id \in gl_live_textures
        ELSE delete_calls[i] = 1
C7_OnlyEvictionDeletes ==
    (\E i \in Registrations : delete_calls'[i] # delete_calls[i]) =>
        /\ last_call'.op \in {"remove_epochs", "remove_pipeline", "clear"}
        /\ \A i \in Registrations :
              delete_calls'[i] # delete_calls[i] <=>
                  (Resolves(registered[i].id) /\ get_opengl_texture(registered[i].id)' = {None})
C7_HandleDeletedExactlyOnce ==
    []C7_DeletedOnceWhenDropped /\ [][C7_OnlyEvictionDeletes]_vars

\* C7 witness: textures dropped by each of the three evictions, one still held
C7_Witness ==
    /\ Len(registered) = 3
    /\ last_call.op = "clear"
    /\ last_call.dropped = 1
    /\ \A i \in Registrations : delete_calls[i] = 1

\* the entries the table holds for pipelines other than pipeline_id
EntriesOfOthers(active, pipeline_id) ==
    { n \in Entries(active) : n.pipeline_id # pipeline_id }
\* the pipeline has no entry in the table
HasNoEntries(active, pipeline_id) ==
    \A n \in Entries(active) : n.pipeline_id # pipeline_id

\* C25: evictOlderThan(P, N) and evictPipeline(P) leave every entry of every
\* other pipeline unchanged (the same ids resolve to the same handle and size
\* before and after); when P has no entries or the registry was never
\* initialised the call changes no entry, deletes nothing, does not
\* initialise the registry, and returns.
C25_EvictionConfinedToPipeline ==
    [][ (last_call'.op \in {"remove_epochs", "remove_pipeline"} /\ last_call' # last_call) =>
          /\ EntriesOfOthers(ACTIVE_GL_TEXTURES, last_call'.pipeline_id)
               = EntriesOfOthers(ACTIVE_GL_TEXTURES', last_call'.pipeline_id)
          /\ \A i \in Registrations :
                registered[i].pipeline_id # last_call'.pipeline_id =>
                    get_opengl_texture(registered[i].id)' = get_opengl_texture(registered[i].id)
          /\ HasNoEntries(ACTIVE_GL_TEXTURES, last_call'.pipeline_id) =>
                /\ Entries(ACTIVE_GL_TEXTURES') = Entries(ACTIVE_GL_TEXTURES)
                /\ is_none(ACTIVE_GL_TEXTURES') = is_none(ACTIVE_GL_TEXTURES)
                /\ gl_live_textures' = gl_live_textures
                /\ delete_calls' = delete_calls
                /\ last_call'.dropped = 0 ]_vars

\* C25 witness: an eviction dropped textures of its pipeline while another
\* pipeline holds an entry that still resolves
C25_Witness ==
    /\ last_call.op \in {"remove_epochs", "remove_pipeline"}
    /\ last_call.dropped > 0
    /\ \E i \in Registrations :
          /\ registered[i].pipeline_id # last_call.pipeline_id
          /\ get_opengl_texture(registered[i].id) = {Found(i)}


----------------------------------------------------------------------------
(* Rendering-order resolver: azul/display_list.rs *)

\* NodeHierarchy: every node's children in sibling order; a child's id is
\* larger than its parent's (the arena appends), sibling order is free.
InsertAt(seq, k, x) == SubSeq(seq, 1, k) \o <<x>> \o SubSeq(seq, k + 1, Len(seq))

RECURSIVE HierarchiesUpTo(_, _)
HierarchiesUpTo(n, i) ==
    IF i = 0 THEN { [m \in 0..(n - 1) |-> <<>>] }
    ELSE { [h EXCEPT ![p] = InsertAt(h[p], k, i)] :
             <<h, p, k>> \in { <<h, p, k>> \in HierarchiesUpTo(n, i - 1) \X (0..(i - 1)) \X (0..n) :
                                 k <= Len(h[p]) } }
Hierarchies(n) == HierarchiesUpTo(n, n - 1)

\* parent.children(node_hierarchy)
children(parent, hierarchy) == hierarchy[parent]

Depth(hierarchy, node) ==
    LET RECURSIVE up(_, _)
        up(m, d) == IF \E q \in DOMAIN hierarchy : \E i \in 1..Len(hierarchy[q]) : hierarchy[q][i] = m
                    THEN up(CHOOSE q \in DOMAIN hierarchy :
                                \E i \in 1..Len(hierarchy[q]) : hierarchy[q][i] = m, d + 1)
                    ELSE d
    IN up(node, 0)

\* NodeHierarchy::get_parents_sorted_by_depth: the nodes that have children,
\* by depth (and by id within a depth)
RECURSIVE SortByDepth(_, _)
SortByDepth(hierarchy, todo) ==
    IF todo = {} THEN <<>>
    ELSE LET first == CHOOSE m \in todo : \A o \in todo :
                          \/ Depth(hierarchy, m) < Depth(hierarchy, o)
                          \/ Depth(hierarchy, m) = Depth(hierarchy, o) /\ m <= o
         IN <<first>> \o SortByDepth(hierarchy, todo \ {first})
get_parents_sorted_by_depth(hierarchy) ==
    SortByDepth(hierarchy, { m \in DOMAIN hierarchy : hierarchy[m] # <<>> })

\* layout.position is an Option<CssPropertyValue<LayoutPosition>>
PositionValues == {"unset", "Auto", "Relative", "Absolute"}
LayoutPosition_default == "Static"
\* CssPropertyValue::get_property_or_default
get_property_or_default(p) ==
    IF p \in {"Auto", "Initial"} THEN Some(LayoutPosition_default)
    ELSE IF p \in {"None", "Inherit"} THEN None
    ELSE Some(p)
\* rectangles[id].layout.position.and_then(|p| p.get_property_or_default()).unwrap_or_default()
resolved_position(id) ==
    LET o == IF position[id] = "unset" THEN None ELSE get_property_or_default(position[id])
    IN IF is_none(o) THEN LayoutPosition_default ELSE o.val

is_absolute(id) == resolved_position(id) = "Absolute"
is_not_absolute(id) == resolved_position(id) # "Absolute"

\* faulty variant: the two filters are appended the other way round
sort_children_absolute_first(parent) ==
    SelectSeq(children(parent, node_hierarchy), is_absolute)
        \o SelectSeq(children(parent, node_hierarchy), is_not_absolute)
sort_children_by_position(parent) ==
    LET not_absolute_children == SelectSeq(children(parent, node_hierarchy), is_not_absolute)
        absolute_children == SelectSeq(children(parent, node_hierarchy), is_absolute)
    IN not_absolute_children \o absolute_children

RECURSIVE fill_content_group_children(_, _)
fill_content_group_children(root, sorted) ==
    IF root \in DOMAIN sorted
    THEN [root |-> root,
          children |-> [i \in 1..Len(sorted[root]) |->
                           fill_content_group_children(sorted[root][i], sorted)]]
    ELSE [root |-> root, children |-> <<>>]

NodeId_ZERO == 0
NoContentGroup == [root |-> NodeId_ZERO, children |-> <<>>]

OrderIdle ==
    /\ node_hierarchy = <<>>
    /\ position = <<>>
    /\ order_pc = "idle"
    /\ parents_todo = <<>>
    /\ children_sorted = EmptyMap
    /\ root_content_group = NoContentGroup

OrderInit ==
    /\ \E n \in 1..MaxNodes :
         /\ node_hierarchy \in Hierarchies(n)
         /\ position \in { f \in [0..(n - 1) -> PositionValues] : f[0] = "unset" }
    /\ order_pc = "sort"
    /\ parents_todo = get_parents_sorted_by_depth(node_hierarchy)
    /\ children_sorted = EmptyMap
    /\ root_content_group = NoContentGroup

\* one element of the map() over the parents in determine_rendering_order
determine_rendering_order_sort ==
    /\ order_pc = "sort"
    /\ parents_todo # <<>>
    /\ children_sorted' = MapInsert(children_sorted, Head(parents_todo),
                                    sort_children_by_position(Head(parents_todo)))
    /\ parents_todo' = Tail(parents_todo)
    /\ UNCHANGED <<node_hierarchy, position, order_pc, root_content_group>>
    /\ UNCHANGED <<registry_vars, scroll_vars, frame_vars, style_vars, shader_vars, callback_vars,
                   virtual_vars, lifetime_vars, clip_vars, draw_vars, iframe_vars, text_vars>>

\* the ContentGroup is filled from NodeId::ZERO and returned
determine_rendering_order_fill ==
    /\ order_pc = "sort"
    /\ parents_todo = <<>>
    /\ root_content_group' = fill_content_group_children(NodeId_ZERO, children_sorted)
    /\ order_pc' = "done"
    /\ UNCHANGED <<node_hierarchy, position, parents_todo, children_sorted>>
    /\ UNCHANGED <<registry_vars, scroll_vars, frame_vars, style_vars, shader_vars, callback_vars,
                   virtual_vars, lifetime_vars, clip_vars, draw_vars, iframe_vars, text_vars>>

OrderNext ==
    \/ determine_rendering_order_sort
    \/ determine_rendering_order_fill


----------------------------------------------------------------------------
(* Rendering-order resolver: properties *)

\* the groups of a ContentGroup tree in pre-order: <<[root, kids]>>
RECURSIVE ConcatAll(_, _)
ConcatAll(seqs, i) == IF i > Len(seqs) THEN <<>> ELSE seqs[i] \o ConcatAll(seqs, i + 1)
RECURSIVE Groups(_)
Groups(group) ==
    <<[root |-> group.root,
       kids |-> [i \in 1..Len(group.children) |-> group.children[i].root]]>>
    \o ConcatAll([i \in 1..Len(group.children) |-> Groups(group.children[i])], 1)

PositionedAbsolutely(id) == position[id] = "Absolute"
IndexIn(seq, x) == CHOOSE k \in 1..Len(seq) : seq[k] = x

\* out is inp with the absolutely positioned nodes moved behind the others
AbsoluteLast(out, inp) ==
    /\ Len(out) = Len(inp)
    /\ \A k \in 1..Len(inp) : Cardinality({ m \in 1..Len(out) : out[m] = inp[k] }) = 1
    /\ \A a, b \in 1..Len(out) :
          a < b =>
              /\ ~(PositionedAbsolutely(out[a]) /\ ~PositionedAbsolutely(out[b]))
              /\ (PositionedAbsolutely(out[a]) <=> PositionedAbsolutely(out[b])) =>
                     IndexIn(inp, out[a]) < IndexIn(inp, out[b])

\* C8: the ContentGroup returned has node 0 as its root and holds every node
\* once; the children of every node's group are a permutation of the node's
\* children in which every absolutely positioned child comes after every other
\* child (unset counts as not absolute) and each of the two groups keeps the
\* sibling order.
C8_AbsoluteChildrenLast ==
    order_pc = "done" =>
        LET groups == Groups(root_content_group)
        IN /\ root_content_group.root = 0
           /\ \A node \in DOMAIN node_hierarchy :
                 /\ Cardinality({ g \in 1..Len(groups) : groups[g].root = node }) = 1
                 /\ \A g \in 1..Len(groups) :
                       groups[g].root = node => AbsoluteLast(groups[g].kids, node_hierarchy[node])

\* C8 witness: a parent whose first child is absolute and comes before an
\* unset and an auto sibling, in a sibling order that is not the order of the
\* ids, so that its children were reordered; the tree also has a leaf
C8_Witness ==
    /\ order_pc = "done"
    /\ \E parent \in DOMAIN node_hierarchy :
          LET inp == node_hierarchy[parent]
          IN /\ Len(inp) >= 3
             /\ PositionedAbsolutely(inp[1])
             /\ position[inp[2]] = "unset"
             /\ position[inp[3]] = "Auto"
             /\ inp[1] > inp[2]
             /\ children_sorted[parent] # inp
    /\ \E parent \in DOMAIN node_hierarchy : node_hierarchy[parent] = <<>>

----------------------------------------------------------------------------
(* Scroll-clip analyzer: azul/display_list.rs *)

\* Lengths are in half pixels, so that rounding to the pixel is not the identity.
ScrollCoords == {0, 1}
ScrollExtents == {2, 3}
LayoutRects == [x : ScrollCoords, y : ScrollCoords, width : ScrollExtents, height : ScrollExtents]
Overflows == {"Auto", "Scroll", "Visible", "Hidden"}
\* the trees the analyzer is run on: a root with two children, and a chain
ScrollHierarchies == { (0 :> <<1, 2>>) @@ (1 :> <<>>) @@ (2 :> <<>>),
                       (0 :> <<1>>) @@ (1 :> <<2>>) @@ (2 :> <<>>) }

\* f32::round, half away from zero, on a length in half pixels; `as isize`
round(v) == IF v >= 0 THEN (v + 1) \div 2 ELSE -((1 - v) \div 2)

Min(a, b) == IF a <= b THEN a ELSE b
Max(a, b) == IF a >= b THEN a ELSE b

\* LayoutRect::union of a sequence of rectangles
RECURSIVE UnionFrom(_, _, _)
UnionFrom(acc, rects, i) ==
    IF i > Len(rects) THEN acc
    ELSE LET r == rects[i]
             min_x == Min(acc.x, r.x)
             min_y == Min(acc.y, r.y)
             max_x == Max(acc.x + acc.width, r.x + r.width)
             max_y == Max(acc.y + acc.height, r.y + r.height)
         IN UnionFrom([x |-> min_x, y |-> min_y,
                       width |-> max_x - min_x, height |-> max_y - min_y], rects, i + 1)

\* LayoutRect::get_scroll_rect: the union of the children's bounds, None without children
get_scroll_rect(child_bounds) ==
    IF child_bounds = <<>> THEN None ELSE Some(UnionFrom(child_bounds[1], child_bounds, 2))

contains_rect_rounded(a, b) ==
    LET a_x == round(a.x)
        a_y == round(a.x)
        a_width == round(a.width)
        a_height == round(a.height)
        b_x == round(b.x)
        b_y == round(b.x)
        b_width == round(b.width)
        b_height == round(b.height)
    IN /\ b_x >= a_x
       /\ b_y >= a_y
       /\ b_x + b_width <= a_x + a_width
       /\ b_y + b_height <= a_y + a_height

\* the contents a node can have, and NodeData::calculate_node_data_hash: the
\* hash of a node's content (type, ids, classes, callbacks), not of its node id
NodeContents == {"div.a", "div.b"}
calculate_node_data_hash(node_data) == IF node_data = "div.a" THEN 17 ELSE 23

ExternalScrollId(hash, pipeline_id) == <<hash, pipeline_id>>
ScrollTagId(tag) == tag

\* faulty variant: only overflow visible suppresses the scroll frame
overflow_is_visible_only(overflow) == overflow = "Visible"

\* `parent_rect.overflow == Overflow::Visible || parent_rect.overflow == Overflow::Hidden`
overflow_is_visible_or_hidden(overflow) == overflow = "Visible" \/ overflow = "Hidden"

\* faulty variant: the external scroll id is made from the scroll tag
scroll_node_keyed_by_tag(parent, children_scroll_rect, scroll_tag_id) ==
    LET parent_dom_hash == calculate_node_data_hash(dom_rects[parent])
    IN [child_rect |-> children_scroll_rect,
        parent_external_scroll_id |-> ExternalScrollId(scroll_tag_id, scroll_pipeline_id),
        parent_dom_hash |-> parent_dom_hash,
        scroll_tag_id |-> scroll_tag_id]

\* the OverflowingScrollNode made for a parent that needs a scroll frame
OverflowingScrollNode(parent, children_scroll_rect, scroll_tag_id) ==
    LET parent_dom_hash == calculate_node_data_hash(dom_rects[parent])
    IN [child_rect |-> children_scroll_rect,
        parent_external_scroll_id |-> ExternalScrollId(parent_dom_hash, scroll_pipeline_id),
        parent_dom_hash |-> parent_dom_hash,
        scroll_tag_id |-> scroll_tag_id]

\* the tags ui_state.node_ids_to_tag_ids can give the nodes: some parents
\* carry a hit-test tag (tags are unique per node), the other nodes none
TagAssignments(hierarchy) ==
    { [m \in DOMAIN hierarchy |-> [tag |-> IF m \in tagged THEN Some(m + 1) ELSE None]] :
        tagged \in SUBSET { m \in DOMAIN hierarchy : hierarchy[m] # <<>> } }

ScrollIdle ==
    /\ scroll_hierarchy = <<>>
    /\ layouted_rects = <<>>
    /\ scroll_pc = "idle"
    /\ scroll_parents = <<>>
    /\ overflowing_nodes = EmptyMap
    /\ scroll_visited = {}
    /\ display_list_rects = <<>>
    /\ dom_rects = <<>>
    /\ scroll_pipeline_id = 1
    /\ tags_to_node_ids = EmptyMap
    /\ scroll_tag_counter = 1
    /\ scroll_run = 1
    /\ first_scrolled = EmptyMap
    /\ node_id_map = <<>>

\* one frame, every geometry: the root carries no hit-test tag, node 1 does
ScrollInit ==
    /\ scroll_hierarchy \in ScrollHierarchies
    /\ layouted_rects \in { f \in [DOMAIN scroll_hierarchy -> [bounds : LayoutRects, overflow : Overflows]] :
                              \A m \in DOMAIN scroll_hierarchy :
                                  scroll_hierarchy[m] = <<>> => f[m].overflow = "Auto" }
    /\ scroll_pc = "loop"
    /\ scroll_parents = get_parents_sorted_by_depth(scroll_hierarchy)
    /\ overflowing_nodes = EmptyMap
    /\ scroll_visited = {}
    /\ display_list_rects = [m \in DOMAIN scroll_hierarchy |->
                               [tag |-> IF m = 1 THEN Some(m + 1) ELSE None]]
    /\ dom_rects = [m \in DOMAIN scroll_hierarchy |-> "div.a"]
    /\ scroll_pipeline_id = 1
    /\ tags_to_node_ids = EmptyMap
    /\ scroll_tag_counter = Cardinality(DOMAIN scroll_hierarchy) + 1
    /\ scroll_run = 1
    /\ first_scrolled = EmptyMap
    /\ node_id_map = [m \in DOMAIN scroll_hierarchy |-> m]

\* one iteration of `for (_, parent) in parents`
get_nodes_that_need_scroll_clip_parent ==
    /\ scroll_pc = "loop"
    /\ scroll_parents # <<>>
    /\ LET parent == Head(scroll_parents)
           parent_rect == layouted_rects[parent]
           kids == children(parent, scroll_hierarchy)
           children_scroll_rect ==
               get_scroll_rect([i \in 1..Len(kids) |-> layouted_rects[kids[i]].bounds])
           continue ==
               IF is_none(children_scroll_rect) THEN TRUE
               ELSE IF contains_rect_rounded(parent_rect.bounds, children_scroll_rect.val) THEN TRUE
               ELSE overflow_is_visible_or_hidden(parent_rect.overflow)
           existing_tag == display_list_rects[parent].tag
           scroll_tag_id == IF is_some(existing_tag) THEN ScrollTagId(existing_tag.val)
                            ELSE ScrollTagId(scroll_tag_counter)
       IN IF continue
          THEN UNCHANGED <<overflowing_nodes, tags_to_node_ids, scroll_tag_counter>>
          ELSE /\ scroll_tag_counter' = IF is_some(existing_tag) THEN scroll_tag_counter
                                        ELSE scroll_tag_counter + 1
               /\ tags_to_node_ids' = MapInsert(tags_to_node_ids, scroll_tag_id, parent)
               /\ overflowing_nodes' =
                      MapInsert(overflowing_nodes, parent,
                                OverflowingScrollNode(parent, children_scroll_rect.val, scroll_tag_id))
    /\ scroll_visited' = scroll_visited \cup {Head(scroll_parents)}
    /\ scroll_parents' = Tail(scroll_parents)
    /\ UNCHANGED <<scroll_hierarchy, layouted_rects, scroll_pc, display_list_rects, dom_rects,
                   scroll_pipeline_id, scroll_run, first_scrolled, node_id_map>>
    /\ UNCHANGED <<registry_vars, order_vars, frame_vars, style_vars, shader_vars, callback_vars,
                   virtual_vars, lifetime_vars, clip_vars, draw_vars, iframe_vars, text_vars>>

\* ScrolledNodes { overflowing_nodes: nodes, tags_to_node_ids } is returned
get_nodes_that_need_scroll_clip_return ==
    /\ scroll_pc = "loop"
    /\ scroll_parents = <<>>
    /\ scroll_pc' = "done"
    /\ UNCHANGED <<scroll_hierarchy, layouted_rects, scroll_parents, overflowing_nodes,
                   scroll_visited, display_list_rects, dom_rects, scroll_pipeline_id,
                   tags_to_node_ids, scroll_tag_counter, scroll_run, first_scrolled,
                   node_id_map>>
    /\ UNCHANGED <<registry_vars, order_vars, frame_vars, style_vars, shader_vars, callback_vars,
                   virtual_vars, lifetime_vars, clip_vars, draw_vars, iframe_vars, text_vars>>

\* Two frames of one pipeline: a root with the children A and B, A with one
\* child; the second frame lays out the same tree after the DOM was rebuilt,
\* so the same nodes sit at other arena indices.
ScrollIdHierarchy == (0 :> <<1, 3>>) @@ (1 :> <<2>>) @@ (2 :> <<>>) @@ (3 :> <<>>)
ScrollIdRects == { [x |-> 0, y |-> 0, width |-> 2, height |-> 2],
                   [x |-> 1, y |-> 1, width |-> 3, height |-> 3] }

ScrollIdsInit ==
    /\ scroll_hierarchy = ScrollIdHierarchy
    /\ layouted_rects \in { f \in [DOMAIN scroll_hierarchy -> [bounds : ScrollIdRects, overflow : Overflows]] :
                              /\ f[0].bounds.x = 0
                              /\ \A m \in DOMAIN scroll_hierarchy :
                                     scroll_hierarchy[m] = <<>> => f[m].overflow = "Auto" }
    /\ scroll_pc = "loop"
    /\ scroll_parents = get_parents_sorted_by_depth(scroll_hierarchy)
    /\ overflowing_nodes = EmptyMap
    /\ scroll_visited = {}
    /\ display_list_rects \in TagAssignments(scroll_hierarchy)
    /\ dom_rects \in { f \in [DOMAIN scroll_hierarchy -> NodeContents] :
                         \A m \in DOMAIN scroll_hierarchy :
                             scroll_hierarchy[m] = <<>> => f[m] = "div.a" }
    /\ scroll_pipeline_id \in PipelineIds
    /\ tags_to_node_ids = EmptyMap
    /\ scroll_tag_counter = Cardinality(DOMAIN scroll_hierarchy) + 1
    /\ scroll_run = 1
    /\ first_scrolled = EmptyMap
    /\ node_id_map = [m \in DOMAIN scroll_hierarchy |-> m]

\* the ways the nodes of a tree can sit in a rebuilt arena: the root stays
\* node 0 and a child's id is larger than its parent's
Renumberings(hierarchy) ==
    { pi \in [DOMAIN hierarchy -> DOMAIN hierarchy] :
        /\ \A m, o \in DOMAIN hierarchy : pi[m] = pi[o] => m = o
        /\ pi[0] = 0
        /\ \A parent \in DOMAIN hierarchy : \A i \in 1..Len(hierarchy[parent]) :
               pi[hierarchy[parent][i]] > pi[parent] }
OldId(pi, m) == CHOOSE o \in DOMAIN pi : pi[o] = m
RenumberedHierarchy(hierarchy, pi) ==
    [m \in DOMAIN hierarchy |->
        [i \in 1..Len(hierarchy[OldId(pi, m)]) |-> pi[hierarchy[OldId(pi, m)][i]]]]
Renumbered(f, pi) == [m \in DOMAIN f |-> f[OldId(pi, m)]]

\* the next frame: do_layout_for_display_list runs the analyzer again for the
\* same pipeline on the rebuilt tree (same content and layout per node, other
\* node ids, hit-test tags assigned anew)
get_nodes_that_need_scroll_clip_next_frame ==
    /\ scroll_pc = "done"
    /\ scroll_run = 1
    /\ \E pi \in Renumberings(scroll_hierarchy) :
        LET hierarchy == RenumberedHierarchy(scroll_hierarchy, pi)
        IN /\ scroll_hierarchy' = hierarchy
           /\ layouted_rects' = Renumbered(layouted_rects, pi)
           /\ dom_rects' = Renumbered(dom_rects, pi)
           /\ display_list_rects' \in TagAssignments(hierarchy)
           /\ scroll_parents' = get_parents_sorted_by_depth(hierarchy)
           /\ node_id_map' = pi
    /\ first_scrolled' = overflowing_nodes
    /\ overflowing_nodes' = EmptyMap
    /\ tags_to_node_ids' = EmptyMap
    /\ scroll_visited' = {}
    /\ scroll_pc' = "loop"
    /\ scroll_run' = 2
    /\ UNCHANGED <<scroll_pipeline_id, scroll_tag_counter>>
    /\ UNCHANGED <<registry_vars, order_vars, frame_vars, style_vars, shader_vars, callback_vars,
                   virtual_vars, lifetime_vars, clip_vars, draw_vars, iframe_vars, text_vars>>

ScrollNext ==
    \/ get_nodes_that_need_scroll_clip_parent
    \/ get_nodes_that_need_scroll_clip_return

----------------------------------------------------------------------------
(* Scroll-clip analyzer: properties *)

\* b lies inside a, every coordinate rounded to the pixel, x and y axis each
ContainedPerAxis(a, b) ==
    /\ round(b.x) >= round(a.x)
    /\ round(b.y) >= round(a.y)
    /\ round(b.x) + round(b.width) <= round(a.x) + round(a.width)
    /\ round(b.y) + round(b.height) <= round(a.y) + round(a.height)

HasChildren(parent) == scroll_hierarchy[parent] # <<>>
ChildrenUnion(parent) ==
    LET kids == scroll_hierarchy[parent]
    IN UnionFrom(layouted_rects[kids[1]].bounds,
                 [i \in 1..Len(kids) |-> layouted_rects[kids[i]].bounds], 2)

\* C9: every parent with a child, an overflow that is neither visible nor
\* hidden and a children's union that is not contained per axis in its bounds
\* (also when it sticks out only vertically) has an entry; in scenario A (root
\* with overflow auto and two children, one inside and one outside the root's
\* bounds) the table has exactly one entry, for the root.
C9_OverflowingParentHasEntry ==
    scroll_pc = "done" =>
        /\ \A parent \in DOMAIN scroll_hierarchy :
              ( /\ HasChildren(parent)
                /\ layouted_rects[parent].overflow \notin {"Visible", "Hidden"}
                /\ ~ContainedPerAxis(layouted_rects[parent].bounds, ChildrenUnion(parent)) )
              => parent \in DOMAIN overflowing_nodes
        /\ ( /\ scroll_hierarchy[0] = <<1, 2>>
             /\ layouted_rects[0].overflow = "Auto"
             /\ ContainedPerAxis(layouted_rects[0].bounds, layouted_rects[1].bounds)
             /\ ~ContainedPerAxis(layouted_rects[0].bounds, layouted_rects[2].bounds) )
           => DOMAIN overflowing_nodes = {0}

\* C10: a parent whose children's union is contained per axis in its own
\* bounds has no entry, whatever its overflow.
C10_ContainedParentHasNoEntry ==
    scroll_pc = "done" =>
        \A parent \in DOMAIN scroll_hierarchy :
            (HasChildren(parent)
               /\ ContainedPerAxis(layouted_rects[parent].bounds, ChildrenUnion(parent)))
            => parent \notin DOMAIN overflowing_nodes

\* the parents whose overflow check the loop reaches: children whose union
\* the containment test of the code does not find inside the parent
ReachesOverflowCheck(parent) ==
    /\ HasChildren(parent)
    /\ ~contains_rect_rounded(layouted_rects[parent].bounds, ChildrenUnion(parent))

\* C11: a parent whose overflow is hidden or visible has no entry, neither in
\* overflowing_nodes nor in tags_to_node_ids, whether or not the union of its
\* children is contained in its bounds.
C11_HiddenOrVisibleHasNoEntry ==
    scroll_pc = "done" =>
        \A parent \in DOMAIN scroll_hierarchy :
            layouted_rects[parent].overflow \in {"Hidden", "Visible"}
            => /\ parent \notin DOMAIN overflowing_nodes
               /\ \A tag \in DOMAIN tags_to_node_ids : tags_to_node_ids[tag] # parent

\* a hidden parent and a visible parent, both with children that stick out,
\* one of them carrying a hit-test tag, have been analyzed
C11_Witness ==
    /\ scroll_pc = "done"
    /\ \E p, q \in DOMAIN scroll_hierarchy :
          /\ layouted_rects[p].overflow = "Hidden"
          /\ layouted_rects[q].overflow = "Visible"
          /\ ReachesOverflowCheck(p)
          /\ ReachesOverflowCheck(q)
          /\ ~ContainedPerAxis(layouted_rects[p].bounds, ChildrenUnion(p))
          /\ is_some(display_list_rects[q].tag)

\* C12: the analyzer run twice for one pipeline on the same tree with other
\* node ids gives corresponding nodes the same external scroll id; nodes of
\* the two frames with the same content have the same id, whatever their node
\* ids and scroll tags.
C12_ExternalScrollIdsStable ==
    (scroll_pc = "done" /\ scroll_run = 2) =>
        \A n \in DOMAIN first_scrolled :
            /\ node_id_map[n] \in DOMAIN overflowing_nodes
            /\ overflowing_nodes[node_id_map[n]].parent_external_scroll_id
                   = first_scrolled[n].parent_external_scroll_id
            /\ \A m \in DOMAIN overflowing_nodes :
                   dom_rects[m] = dom_rects[node_id_map[n]]
                   => overflowing_nodes[m].parent_external_scroll_id
                          = first_scrolled[n].parent_external_scroll_id

\* a scrolled node sits at another node id in the second frame and got another
\* scroll tag there
C12_Witness ==
    /\ scroll_pc = "done"
    /\ scroll_run = 2
    /\ \E n \in DOMAIN first_scrolled :
          /\ node_id_map[n] # n
          /\ node_id_map[n] \in DOMAIN overflowing_nodes
          /\ overflowing_nodes[node_id_map[n]].scroll_tag_id # first_scrolled[n].scroll_tag_id

\* C26: within one ScrolledNodes table built for one pipeline, two different
\* parent nodes that both receive an entry never carry the same external
\* scroll id, including when the two nodes have identical content.
C26_ExternalScrollIdsUnique ==
    \A a, b \in DOMAIN overflowing_nodes :
        a # b => overflowing_nodes[a].parent_external_scroll_id
                    # overflowing_nodes[b].parent_external_scroll_id


----------------------------------------------------------------------------
(* Display list builder: azul/display_list.rs *)

FrameNodeTypes == {"Div", "Text", "Label", "Image", "GlTexture", "IFrame"}
Backgrounds == {"unset", "Color", "LinearGradient", "RadialGradient", "Image"}
FrameOverflows == {"Auto", "Hidden", "Visible"}
Paddings == { [left |-> 0, right |-> 0, top |-> 0, bottom |-> 0],
              [left |-> 1, right |-> 2, top |-> 1, bottom |-> 3] }
\* the resource cache: CSS image names that are known, and the images
\* registered per pipeline
AppResources ==
    [css_ids_to_image_ids : { EmptyMap, [name \in {"bg"} |-> "img"] },
     currently_registered_images : { EmptyMap,
                                     [p \in {1} |-> [i \in {"img"} |-> [key |-> "key.img"]]],
                                     [p \in {2} |-> [i \in {"img"} |-> [key |-> "key.img"]]] }]

\* AppResources::get_css_image_id and AppResources::get_image_info
get_css_image_id(app_resources, css_id) ==
    IF css_id \in DOMAIN app_resources.css_ids_to_image_ids
    THEN Some(app_resources.css_ids_to_image_ids[css_id]) ELSE None
get_image_info(app_resources, pipeline_id, image_id) ==
    IF pipeline_id \in DOMAIN app_resources.currently_registered_images
       /\ image_id \in DOMAIN app_resources.currently_registered_images[pipeline_id]
    THEN Some(app_resources.currently_registered_images[pipeline_id][image_id]) ELSE None

\* RectLayout::is_horizontal_overflow_visible / is_vertical_overflow_visible
is_horizontal_overflow_visible(rect_layout) == rect_layout.overflow_x = "Visible"
is_vertical_overflow_visible(rect_layout) == rect_layout.overflow_y = "Visible"

subtract_padding(bounds, padding) ==
    [x |-> bounds.x + padding.left,
     width |-> bounds.width - (padding.right + padding.left),
     y |-> bounds.y + padding.top,
     height |-> bounds.height - (padding.top + padding.bottom)]

get_text(bounds, padding, root_window_size, layouted_glyphs, rect_layout) ==
    LET overflow_horizontal_visible == is_horizontal_overflow_visible(rect_layout)
        overflow_vertical_visible == is_horizontal_overflow_visible(rect_layout)
        padding_clip_bounds == subtract_padding(bounds, padding)
        text_clip_rect ==
            IF overflow_horizontal_visible /\ overflow_vertical_visible THEN None
            ELSE IF ~overflow_horizontal_visible /\ ~overflow_vertical_visible
                 THEN Some(padding_clip_bounds)
            ELSE IF overflow_horizontal_visible
                 THEN Some([x |-> bounds.x, y |-> bounds.y,
                            width |-> root_window_size.width,
                            height |-> padding_clip_bounds.height])
            ELSE Some([x |-> bounds.x, y |-> bounds.y,
                       width |-> padding_clip_bounds.width,
                       height |-> root_window_size.height])
    IN [item |-> "Text", glyphs |-> layouted_glyphs, clip |-> text_clip_rect]

\* faulty variant: an image that does not resolve gets a placeholder
get_image_info_or_placeholder(app_resources, pipeline_id, style_image_id) ==
    Some([item |-> "RectBackground::Image", info |-> [key |-> "key.none"]])

\* the nested get_image_info of displaylist_handle_rect: CSS name -> image id -> info
get_background_image_info(app_resources, pipeline_id, style_image_id) ==
    LET image_id == get_css_image_id(app_resources, style_image_id)
        image_info == IF is_none(image_id) THEN None
                      ELSE get_image_info(app_resources, pipeline_id, image_id.val)
    IN IF is_none(image_info) THEN None
       ELSE Some([item |-> "RectBackground::Image", info |-> image_info.val])

box_shadow_content(rect, clip_mode) ==
    IF rect.style.has_box_shadow
    THEN <<[item |-> "BoxShadow", clip_mode |-> clip_mode]>> ELSE <<>>

background_content(rect) ==
    LET bg == rect.style.background
        content ==
            IF bg = "Image"
            THEN get_background_image_info(referenced_content.app_resources,
                                           referenced_content.pipeline_id, "bg")
            ELSE Some([item |-> "RectBackground::" \o bg])
    IN IF bg = "unset" \/ is_none(content) THEN <<>>
       ELSE <<[item |-> "Background", content |-> content.val]>>

\* `match html_node`: the content of the node's own type
node_type_content(rect_idx) ==
    LET rect == referenced_content.display_rectangle_arena[rect_idx]
        html_node == referenced_content.node_data[rect_idx]
        layout == referenced_content.layout_result
    IN IF html_node \in {"Text", "Label"}
       THEN IF rect_idx \in DOMAIN layout.layouted_glyph_cache
            THEN <<get_text(layout.rects[rect_idx].bounds, layout.rects[rect_idx].padding,
                            referenced_content.window_size,
                            layout.layouted_glyph_cache[rect_idx], rect.layout)>>
            ELSE <<>>
       ELSE IF html_node = "Image"
       THEN LET image_info == get_image_info(referenced_content.app_resources,
                                             referenced_content.pipeline_id, "img")
            IN IF is_some(image_info)
               THEN <<[item |-> "Image", image_key |-> image_info.val.key,
                       alpha_type |-> "PremultipliedAlpha"]>>
               ELSE <<>>
       ELSE IF html_node = "GlTexture"
       THEN IF rect_idx \in DOMAIN referenced_content.solved_textures
            THEN <<[item |-> "Image", image_key |-> referenced_content.solved_textures[rect_idx],
                    alpha_type |-> "Alpha"]>>
            ELSE <<>>
       ELSE <<>>

border_content(rect) ==
    IF rect.style.has_border THEN <<[item |-> "Border"]>> ELSE <<>>

\* faulty variant: the border is pushed before the content of the node type
frame_content_border_first(rect_idx) ==
    LET rect == referenced_content.display_rectangle_arena[rect_idx]
    IN box_shadow_content(rect, "Outset") \o background_content(rect)
       \o border_content(rect) \o node_type_content(rect_idx)
       \o box_shadow_content(rect, "Inset")

\* frame.content as displaylist_handle_rect pushes it
frame_content(rect_idx) ==
    LET rect == referenced_content.display_rectangle_arena[rect_idx]
    IN box_shadow_content(rect, "Outset") \o background_content(rect)
       \o node_type_content(rect_idx) \o border_content(rect)
       \o box_shadow_content(rect, "Inset")

\* the frame of the embedded DOM's root, as the recursive call returns it
iframe_children(rect_idx) ==
    IF referenced_content.node_data[rect_idx] = "IFrame"
       /\ rect_idx \in DOMAIN referenced_content.iframe_mappings
    THEN <<[msg |-> "Frame", dom_id |-> referenced_content.iframe_mappings[rect_idx]]>>
    ELSE <<>>

displaylist_handle_rect(rect_idx) ==
    LET rect == referenced_content.display_rectangle_arena[rect_idx]
        scrolled == referenced_content.overflowing_nodes
        tag_id == IF is_some(rect.tag) THEN Some(<<rect.tag.val, 0>>)
                  ELSE IF rect_idx \in DOMAIN scrolled
                       THEN Some(<<scrolled[rect_idx].scroll_tag_id, 0>>)
                  ELSE None
        frame == [tag |-> tag_id,
                  clip_rect |-> None,
                  rect |-> referenced_content.layout_result.rects[rect_idx].bounds,
                  content |-> frame_content(rect_idx),
                  children |-> iframe_children(rect_idx)]
    IN IF rect_idx \in DOMAIN scrolled
       THEN [msg |-> "ScrollFrame",
             content_rect |-> scrolled[rect_idx].child_rect,
             scroll_id |-> scrolled[rect_idx].parent_external_scroll_id,
             scroll_tag |-> scrolled[rect_idx].scroll_tag_id,
             frame |-> frame]
       ELSE [msg |-> "Frame", frame |-> frame]

\* DisplayListMsg::append_children
append_children(content, child_msgs) ==
    [content EXCEPT !.frame.children = @ \o child_msgs]

\* the root node is drawn with every combination of style, node type, layout
\* and resources that matters to its frame; its one child is a bordered div
FrameConfigs ==
    { c \in [html_node : FrameNodeTypes, has_box_shadow : BOOLEAN, has_border : BOOLEAN,
             background : Backgrounds, overflow_x : FrameOverflows, overflow_y : FrameOverflows,
             padding : Paddings, has_glyphs : BOOLEAN, solved : BOOLEAN, mapped : BOOLEAN,
             tagged : BOOLEAN, scrolled : BOOLEAN] :
        /\ c.html_node \notin {"Text", "Label"}
             => /\ c.overflow_x = "Auto" /\ c.overflow_y = "Auto"
                /\ c.padding.left = 0 /\ ~c.has_glyphs
        /\ c.html_node # "GlTexture" => ~c.solved
        /\ c.html_node # "IFrame" => ~c.mapped }

ReferencedContent(c, app_resources) ==
    [display_rectangle_arena |->
        (0 :> [tag |-> IF c.tagged THEN Some(1) ELSE None,
               style |-> [has_box_shadow |-> c.has_box_shadow, has_border |-> c.has_border,
                          background |-> c.background],
               layout |-> [overflow_x |-> c.overflow_x, overflow_y |-> c.overflow_y]])
        @@ (1 :> [tag |-> None,
                  style |-> [has_box_shadow |-> FALSE, has_border |-> TRUE,
                             background |-> "unset"],
                  layout |-> [overflow_x |-> "Auto", overflow_y |-> "Auto"]]),
     node_data |-> (0 :> c.html_node) @@ (1 :> "Div"),
     content_group |-> (0 :> <<1>>) @@ (1 :> <<>>),
     layout_result |->
        [rects |-> (0 :> [bounds |-> [x |-> 1, y |-> 1, width |-> 6, height |-> 5],
                          padding |-> c.padding])
                   @@ (1 :> [bounds |-> [x |-> 2, y |-> 2, width |-> 2, height |-> 2],
                             padding |-> [left |-> 0, right |-> 0, top |-> 0, bottom |-> 0]]),
         layouted_glyph_cache |-> IF c.has_glyphs THEN [n \in {0} |-> "glyphs"] ELSE EmptyMap],
     app_resources |-> app_resources,
     solved_textures |-> IF c.solved THEN [n \in {0} |-> "key.gl"] ELSE EmptyMap,
     iframe_mappings |-> IF c.mapped THEN [n \in {0} |-> 1] ELSE EmptyMap,
     overflowing_nodes |->
        IF c.scrolled
        THEN [n \in {0} |-> [child_rect |-> [x |-> 2, y |-> 2, width |-> 2, height |-> 2],
                             parent_external_scroll_id |-> ExternalScrollId(17, 1),
                             parent_dom_hash |-> 17,
                             scroll_tag_id |-> ScrollTagId(3)]]
        ELSE EmptyMap,
     pipeline_id |-> 1,
     window_size |-> [width |-> 9, height |-> 8]]

FrameIdle ==
    /\ referenced_content = <<>>
    /\ display_list_msgs = EmptyMap
    /\ frame_pc = "idle"

FrameInit ==
    /\ referenced_content \in { ReferencedContent(c, r) : c \in FrameConfigs, r \in AppResources }
    /\ display_list_msgs = EmptyMap
    /\ frame_pc = "walk"

\* push_rectangles_into_displaylist returns for a content group: its own
\* frame with the messages of its child groups appended
push_rectangles_into_displaylist ==
    /\ frame_pc = "walk"
    /\ \E root \in DOMAIN referenced_content.content_group :
         LET kids == referenced_content.content_group[root]
         IN /\ root \notin DOMAIN display_list_msgs
            /\ \A i \in 1..Len(kids) : kids[i] \in DOMAIN display_list_msgs
            /\ display_list_msgs' =
                 MapInsert(display_list_msgs, root,
                           append_children(displaylist_handle_rect(root),
                                           [i \in 1..Len(kids) |-> display_list_msgs[kids[i]]]))
    /\ UNCHANGED <<referenced_content, frame_pc>>
    /\ UNCHANGED <<registry_vars, order_vars, scroll_vars, style_vars, shader_vars, callback_vars,
                   virtual_vars, lifetime_vars, clip_vars, draw_vars, iframe_vars, text_vars>>

\* the call for the root content group has returned
push_rectangles_into_displaylist_return ==
    /\ frame_pc = "walk"
    /\ NodeId_ZERO \in DOMAIN display_list_msgs
    /\ frame_pc' = "done"
    /\ UNCHANGED <<referenced_content, display_list_msgs>>
    /\ UNCHANGED <<registry_vars, order_vars, scroll_vars, style_vars, shader_vars, callback_vars,
                   virtual_vars, lifetime_vars, clip_vars, draw_vars, iframe_vars, text_vars>>

----------------------------------------------------------------------------
(* Display list builder: properties *)

FrameOf(node) == display_list_msgs[node].frame
ItemsOf(node, item) ==
    { i \in 1..Len(FrameOf(node).content) : FrameOf(node).content[i].item = item }
RectOf(node) == referenced_content.display_rectangle_arena[node]
IsTextNode(node) == referenced_content.node_data[node] \in {"Text", "Label"}

\* C13: the clip of a text item follows the two overflow flags separately:
\* x visible and y not visible gives the window's width and the height left
\* after the top and bottom padding; x not visible and y visible gives the
\* width left after the padding and the window's height; both visible gives
\* no clip; neither visible gives the bounds less the padding.
C13_TextClipFollowsBothFlags ==
    \A node \in DOMAIN display_list_msgs :
        \A i \in ItemsOf(node, "Text") :
            LET clip == FrameOf(node).content[i].clip
                x_visible == RectOf(node).layout.overflow_x = "Visible"
                y_visible == RectOf(node).layout.overflow_y = "Visible"
                bounds == referenced_content.layout_result.rects[node].bounds
                padding == referenced_content.layout_result.rects[node].padding
                window == referenced_content.window_size
            IN /\ (x_visible /\ y_visible) => clip = None
               /\ (x_visible /\ ~y_visible) =>
                      /\ is_some(clip)
                      /\ clip.val.width = window.width
                      /\ clip.val.height = bounds.height - padding.top - padding.bottom
               /\ (~x_visible /\ y_visible) =>
                      /\ is_some(clip)
                      /\ clip.val.width = bounds.width - padding.left - padding.right
                      /\ clip.val.height = window.height
               /\ (~x_visible /\ ~y_visible) =>
                      clip = Some([x |-> bounds.x + padding.left,
                                   y |-> bounds.y + padding.top,
                                   width |-> bounds.width - padding.left - padding.right,
                                   height |-> bounds.height - padding.top - padding.bottom])

\* the class of a content item in the painting order
ItemClass(content_item) ==
    IF content_item.item = "BoxShadow"
    THEN (IF content_item.clip_mode = "Outset" THEN 1 ELSE 5)
    ELSE IF content_item.item = "Background" THEN 2
    ELSE IF content_item.item \in {"Text", "Image"} THEN 3
    ELSE 4

\* C14: in every emitted frame no content item comes before an item of an
\* earlier class, the classes being outset box shadow, background, content of
\* the node type (text, image, GL texture), border, inset box shadow.
C14_ContentInFixedOrder ==
    \A node \in DOMAIN display_list_msgs :
        \A i, j \in 1..Len(FrameOf(node).content) :
            i < j => ItemClass(FrameOf(node).content[i]) <= ItemClass(FrameOf(node).content[j])

\* the frame of a GL texture node with one item of each of the five classes
\* has been emitted
C14_Witness ==
    /\ frame_pc = "done"
    /\ Len(FrameOf(0).content) = 5
    /\ { ItemClass(FrameOf(0).content[i]) : i \in 1..5 } = 1..5
    /\ referenced_content.node_data[0] = "GlTexture"

BackgroundUnresolved(node) ==
    /\ RectOf(node).style.background = "Image"
    /\ \/ "bg" \notin DOMAIN referenced_content.app_resources.css_ids_to_image_ids
       \/ LET registered_images == referenced_content.app_resources.currently_registered_images
          IN \/ referenced_content.pipeline_id \notin DOMAIN registered_images
             \/ "img" \notin DOMAIN registered_images[referenced_content.pipeline_id]
ImageUnresolved(node) ==
    /\ referenced_content.node_data[node] = "Image"
    /\ LET registered_images == referenced_content.app_resources.currently_registered_images
       IN \/ referenced_content.pipeline_id \notin DOMAIN registered_images
          \/ "img" \notin DOMAIN registered_images[referenced_content.pipeline_id]

\* what a node's frame holds beside its background and its image
OtherItemsEmitted(node) ==
    /\ (ItemsOf(node, "BoxShadow") # {}) = RectOf(node).style.has_box_shadow
    /\ Cardinality(ItemsOf(node, "BoxShadow")) \in {0, 2}
    /\ (ItemsOf(node, "Border") # {}) = RectOf(node).style.has_border
    /\ (ItemsOf(node, "Text") # {}) =
           (IsTextNode(node) /\ node \in DOMAIN referenced_content.layout_result.layouted_glyph_cache)
    /\ Len(FrameOf(node).children) >= Len(referenced_content.content_group[node])
    /\ \A i \in 1..Len(referenced_content.content_group[node]) :
           \E j \in 1..Len(FrameOf(node).children) :
               FrameOf(node).children[j] = display_list_msgs[referenced_content.content_group[node][i]]

\* C15: a background image or an image node that does not resolve in the
\* resource cache only loses its own item: the node's frame is emitted without
\* a Background (resp. Image) item, with its other items and its children, and
\* the walk returns for every node.
C15_UnresolvedLookupOmitsOwnItem ==
    /\ \A node \in DOMAIN display_list_msgs :
          /\ BackgroundUnresolved(node) =>
                 /\ ItemsOf(node, "Background") = {}
                 /\ OtherItemsEmitted(node)
                 /\ (ItemsOf(node, "Image") # {}) =
                        ( \/ (referenced_content.node_data[node] = "Image" /\ ~ImageUnresolved(node))
                          \/ (referenced_content.node_data[node] = "GlTexture"
                                /\ node \in DOMAIN referenced_content.solved_textures) )
          /\ ImageUnresolved(node) =>
                 /\ ItemsOf(node, "Image") = {}
                 /\ OtherItemsEmitted(node)
                 /\ (ItemsOf(node, "Background") # {}) =
                        (RectOf(node).style.background # "unset" /\ ~BackgroundUnresolved(node))
    /\ frame_pc = "done" =>
          DOMAIN display_list_msgs = DOMAIN referenced_content.display_rectangle_arena

\* the walk is over for an image node whose image is registered for another
\* pipeline only, with a background image of a name the cache does not know
C15_Witness ==
    /\ frame_pc = "done"
    /\ ImageUnresolved(0)
    /\ BackgroundUnresolved(0)
    /\ referenced_content.app_resources.currently_registered_images # EmptyMap
    /\ RectOf(0).style.has_border
    /\ RectOf(0).style.has_box_shadow

----------------------------------------------------------------------------
(* Display rectangles and style overrides: azul/display_list.rs *)

\* CssProperty: one layout property and one style property stand for the rest
CssPropertyTypes == {"Width", "TextColor"}
CssProperty(type, value) == [type |-> type, value |-> value]
\* mem::discriminant of a CssProperty
discriminant(property) == property.type

Static(static_property) == [decl |-> "Static", property |-> static_property]
Dynamic(dynamic_id, default_value) ==
    [decl |-> "Dynamic", dynamic_id |-> dynamic_id, default_value |-> default_value]

\* DisplayRectangle::new: nothing is set yet
DisplayRectangle_new ==
    [style |-> [text_color |-> None], layout |-> [width |-> None]]

apply_style_property(rect, property) ==
    IF property.type = "Width"
    THEN [rect EXCEPT !.layout.width = Some(property.value)]
    ELSE [rect EXCEPT !.style.text_color = Some(property.value)]

OverrideWarning(default, overridden_property) ==
    [default |-> default, overridden_property |-> overridden_property]

\* faulty variant: the override is applied whatever its type, and warned about
apply_override_unchecked(rect, dynamic_property, overridden_property) ==
    [rect |-> apply_style_property(rect, overridden_property),
     warnings |-> IF discriminant(overridden_property) = discriminant(dynamic_property.default_value)
                  THEN <<>>
                  ELSE <<OverrideWarning(dynamic_property.default_value, overridden_property)>>]

\* the Dynamic arm once an override was found for the property's id
apply_override(rect, dynamic_property, overridden_property) ==
    IF discriminant(overridden_property) = discriminant(dynamic_property.default_value)
    THEN [rect |-> apply_style_property(rect, overridden_property), warnings |-> <<>>]
    ELSE [rect |-> rect,
          warnings |-> <<OverrideWarning(dynamic_property.default_value, overridden_property)>>]

\* css_constraints.values().filter_map(..).collect(), from the i-th constraint on
RECURSIVE populate_css_properties_from(_, _, _, _)
populate_css_properties_from(rect, css_constraints, node_overrides, i) ==
    IF i > Len(css_constraints) THEN [rect |-> rect, warnings |-> <<>>]
    ELSE LET constraint == css_constraints[i]
             step ==
                 IF constraint.decl = "Static"
                 THEN [rect |-> apply_style_property(rect, constraint.property), warnings |-> <<>>]
                 ELSE IF constraint.dynamic_id \notin DOMAIN node_overrides
                 THEN [rect |-> rect, warnings |-> <<>>]
                 ELSE apply_override(rect, constraint, node_overrides[constraint.dynamic_id])
             rest == populate_css_properties_from(step.rect, css_constraints, node_overrides, i + 1)
         IN [rect |-> rest.rect, warnings |-> step.warnings \o rest.warnings]

\* css_overrides.get(&node_id): no entry for the node is no override at all
populate_css_properties(rect, node_id, css_overrides) ==
    populate_css_properties_from(rect, ui_description.styled_nodes[node_id],
                                 IF node_id \in DOMAIN css_overrides
                                 THEN css_overrides[node_id] ELSE EmptyMap, 1)

\* css_constraints of a node, in the order values() walks them: at most one
\* declaration per property type, static or dynamic under the id "a" or "b"
ConstraintsOf(width, text_color) ==
    (IF width = "unset" THEN <<>>
     ELSE IF width = "Static" THEN <<Static(CssProperty("Width", 1))>>
     ELSE <<Dynamic(width, CssProperty("Width", 0))>>)
    \o (IF text_color = "unset" THEN <<>>
        ELSE IF text_color = "Static" THEN <<Static(CssProperty("TextColor", 1))>>
        ELSE <<Dynamic(text_color, CssProperty("TextColor", 0))>>)
\* the overrides registered for a node: per id none, a width or a text colour
OverridesOf(a, b) ==
    [id \in (IF a = "unset" THEN {} ELSE {"a"}) \cup (IF b = "unset" THEN {} ELSE {"b"}) |->
        CssProperty(IF id = "a" THEN a ELSE b, 2)]
OverrideChoices == {"unset", "Width", "TextColor"}

UiDescriptions ==
    { [styled_nodes |-> (0 :> ConstraintsOf(w, t)) @@ (1 :> ConstraintsOf("a", "unset")),
       dynamic_css_overrides |->
           [n \in (IF a = "unset" /\ b = "unset" THEN {} ELSE {0})
                  \cup (IF a1 = "unset" THEN {} ELSE {1}) |->
               IF n = 0 THEN OverridesOf(a, b) ELSE OverridesOf(a1, "unset")]] :
        w \in {"unset", "Static", "a"}, t \in {"unset", "Static", "a", "b"},
        a \in OverrideChoices, b \in OverrideChoices, a1 \in OverrideChoices }

StyleIdle ==
    /\ ui_description = <<>>
    /\ feature_logging = FALSE
    /\ display_rect_arena = EmptyMap
    /\ override_warnings = <<>>
    /\ error_log = <<>>
    /\ style_pc = "idle"

StyleInit ==
    /\ ui_description \in UiDescriptions
    /\ feature_logging \in BOOLEAN
    /\ display_rect_arena = EmptyMap
    /\ override_warnings = <<>>
    /\ error_log = <<>>
    /\ style_pc = "transform"

\* the closure of arena.node_data.transform, for the next node of the arena
display_list_from_ui_description_transform ==
    /\ style_pc = "transform"
    /\ \E node_id \in DOMAIN ui_description.styled_nodes :
          /\ node_id \notin DOMAIN display_rect_arena
          /\ \A lower \in DOMAIN ui_description.styled_nodes :
                 lower < node_id => lower \in DOMAIN display_rect_arena
          /\ LET populated == populate_css_properties(DisplayRectangle_new, node_id,
                                                      ui_description.dynamic_css_overrides)
             IN /\ display_rect_arena' = MapInsert(display_rect_arena, node_id, populated.rect)
                /\ override_warnings' = override_warnings \o populated.warnings
    /\ UNCHANGED <<ui_description, feature_logging, error_log, style_pc>>
    /\ UNCHANGED <<registry_vars, order_vars, scroll_vars, frame_vars, shader_vars, callback_vars,
                   virtual_vars, lifetime_vars, clip_vars, draw_vars, iframe_vars, text_vars>>

\* the warnings are logged if the crate has the "logging" feature, and the
\* DisplayList is returned
display_list_from_ui_description_return ==
    /\ style_pc = "transform"
    /\ DOMAIN display_rect_arena = DOMAIN ui_description.styled_nodes
    /\ error_log' = IF feature_logging THEN error_log \o override_warnings ELSE error_log
    /\ style_pc' = "done"
    /\ UNCHANGED <<ui_description, feature_logging, display_rect_arena, override_warnings>>
    /\ UNCHANGED <<registry_vars, order_vars, scroll_vars, frame_vars, shader_vars, callback_vars,
                   virtual_vars, lifetime_vars, clip_vars, draw_vars, iframe_vars, text_vars>>

----------------------------------------------------------------------------
(* Style overrides: properties *)

DynamicConstraints(node) ==
    { i \in 1..Len(ui_description.styled_nodes[node]) :
        ui_description.styled_nodes[node][i].decl = "Dynamic" }
NodeOverrides(node) ==
    IF node \in DOMAIN ui_description.dynamic_css_overrides
    THEN ui_description.dynamic_css_overrides[node] ELSE EmptyMap
\* the dynamic property i of the node has an override of another type
Mismatched(node, i) ==
    LET constraint == ui_description.styled_nodes[node][i]
    IN /\ constraint.dynamic_id \in DOMAIN NodeOverrides(node)
       /\ NodeOverrides(node)[constraint.dynamic_id].type # constraint.default_value.type
MismatchedPairs ==
    { pair \in (DOMAIN ui_description.styled_nodes) \X (1..2) :
        pair[2] \in DynamicConstraints(pair[1]) /\ Mismatched(pair[1], pair[2]) }
\* the override under this id fits none of the node's dynamic properties that use the id
MismatchedId(node, id) ==
    /\ \E i \in DynamicConstraints(node) : ui_description.styled_nodes[node][i].dynamic_id = id
    /\ \A i \in DynamicConstraints(node) :
           ui_description.styled_nodes[node][i].dynamic_id = id => Mismatched(node, i)

\* C16: an override of another type than the dynamic property's default does
\* not change the node's DisplayRectangle: style and layout are what they are
\* with no override registered for that node and id; every node gets its
\* rectangle.
C16_MismatchedOverrideChangesNothing ==
    /\ \A node \in DOMAIN display_rect_arena :
          \A id \in DOMAIN NodeOverrides(node) :
              MismatchedId(node, id)
              => display_rect_arena[node]
                   = populate_css_properties_from(DisplayRectangle_new,
                                                  ui_description.styled_nodes[node],
                                                  MapRemove(NodeOverrides(node), id), 1).rect
    /\ style_pc = "done" => DOMAIN display_rect_arena = DOMAIN ui_description.styled_nodes

\* the rectangles are built for a node with a mismatched override beside a
\* matching one, and for a second node with a mismatched override
C16_Witness ==
    /\ style_pc = "done"
    /\ \E id \in DOMAIN NodeOverrides(0) : MismatchedId(0, id)
    /\ \E i \in DynamicConstraints(0) :
          /\ ui_description.styled_nodes[0][i].dynamic_id \in DOMAIN NodeOverrides(0)
          /\ ~Mismatched(0, i)
    /\ \E id \in DOMAIN NodeOverrides(1) : MismatchedId(1, id)

\* C17: each mismatched node / property pair is reported once: when the
\* rectangles are built the log holds one warning per such pair and nothing
\* else, and every warning collected is in the log.
C17_MismatchReportedOnce ==
    style_pc = "done" =>
        /\ Len(error_log) = Cardinality(MismatchedPairs)
        /\ \A pair \in MismatchedPairs :
               LET constraint == ui_description.styled_nodes[pair[1]][pair[2]]
               IN \E i \in 1..Len(error_log) :
                      error_log[i] = OverrideWarning(constraint.default_value,
                                                     NodeOverrides(pair[1])[constraint.dynamic_id])
        /\ \A i \in 1..Len(override_warnings) :
               \E j \in 1..Len(error_log) : error_log[j] = override_warnings[i]

----------------------------------------------------------------------------
(* GlShader::new: azul-core/gl.rs *)

\* What the call meets: whether the driver has a shader compiler, whether the
\* two sources compile and the program links (a program only links if both
\* stages compiled), and whether the crate is built with debug_assertions.
ShaderEnvs ==
    { e \in [shader_compiler : BOOLEAN, vertex_compiles : BOOLEAN,
             fragment_compiles : BOOLEAN, links : BOOLEAN, debug_assertions : BOOLEAN] :
        e.links => (e.vertex_compiles /\ e.fragment_compiles) }

GlObject(kind, name) == [kind |-> kind, name |-> name]
\* create_shader / create_program: the driver hands out a name not in use
create_name(objects) ==
    CHOOSE n \in 1..(Cardinality(objects) + 1) :
        /\ \A o \in objects : o.name # n
        /\ \A m \in 1..(n - 1) : \E o \in objects : o.name = m

Ok(v) == [tag |-> "Ok", val |-> v]
Err(e) == [tag |-> "Err", err |-> e]

\* get_gl_shader_error / get_gl_program_error exist with debug_assertions only
get_gl_shader_error(compiles) == IF compiles THEN None ELSE Some(0)
get_gl_program_error(links) == IF links THEN None ELSE Some(0)

ShaderIdle ==
    /\ shader_env = <<>>
    /\ gl_objects = {}
    /\ shader_created = {}
    /\ shader_stages = <<>>
    /\ shader_result = None
    /\ shader_pc = "idle"

\* the context may already hold a program of an earlier call
ShaderInit ==
    /\ shader_env \in ShaderEnvs
    /\ gl_objects \in { {}, {GlObject("program", 1)} }
    /\ shader_created = {}
    /\ shader_stages = <<>>
    /\ shader_result = None
    /\ shader_pc = "new"

\* get_boolean_v(gl::SHADER_COMPILER)
GlShader_new_shader_compiler ==
    /\ shader_pc = "new"
    /\ IF ~shader_env.shader_compiler
       THEN /\ shader_result' = Some(Err("NoShaderCompiler"))
            /\ shader_pc' = "returned"
       ELSE /\ shader_pc' = "vertex"
            /\ UNCHANGED shader_result
    /\ UNCHANGED <<shader_env, gl_objects, shader_created, shader_stages>>
    /\ UNCHANGED <<registry_vars, order_vars, scroll_vars, frame_vars, style_vars, callback_vars,
                   virtual_vars, lifetime_vars, clip_vars, draw_vars, iframe_vars, text_vars>>

\* create, source and compile the vertex shader; check it with debug_assertions
GlShader_new_vertex_shader ==
    /\ shader_pc = "vertex"
    /\ LET vertex_shader_object == GlObject("shader", create_name(gl_objects))
           failed == shader_env.debug_assertions
                     /\ is_some(get_gl_shader_error(shader_env.vertex_compiles))
       IN /\ shader_created' = shader_created \cup {vertex_shader_object}
          /\ shader_stages' = Append(shader_stages, "vertex")
          /\ IF failed
             THEN /\ gl_objects' = (gl_objects \cup {vertex_shader_object}) \ {vertex_shader_object}
                  /\ shader_result' = Some(Err("Compile::Vertex"))
                  /\ shader_pc' = "returned"
             ELSE /\ gl_objects' = gl_objects \cup {vertex_shader_object}
                  /\ shader_pc' = "fragment"
                  /\ UNCHANGED shader_result
    /\ UNCHANGED shader_env
    /\ UNCHANGED <<registry_vars, order_vars, scroll_vars, frame_vars, style_vars, callback_vars,
                   virtual_vars, lifetime_vars, clip_vars, draw_vars, iframe_vars, text_vars>>

\* create, source and compile the fragment shader; check it with debug_assertions
GlShader_new_fragment_shader ==
    /\ shader_pc = "fragment"
    /\ LET vertex_shader_object == CHOOSE o \in shader_created : o.kind = "shader"
           fragment_shader_object == GlObject("shader", create_name(gl_objects))
           failed == shader_env.debug_assertions
                     /\ is_some(get_gl_shader_error(shader_env.fragment_compiles))
       IN /\ shader_created' = shader_created \cup {fragment_shader_object}
          /\ shader_stages' = Append(shader_stages, "fragment")
          /\ IF failed
             THEN /\ gl_objects' = (gl_objects \cup {fragment_shader_object})
                                       \ {vertex_shader_object, fragment_shader_object}
                  /\ shader_result' = Some(Err("Compile::Fragment"))
                  /\ shader_pc' = "returned"
             ELSE /\ gl_objects' = gl_objects \cup {fragment_shader_object}
                  /\ shader_pc' = "link"
                  /\ UNCHANGED shader_result
    /\ UNCHANGED shader_env
    /\ UNCHANGED <<registry_vars, order_vars, scroll_vars, frame_vars, style_vars, callback_vars,
                   virtual_vars, lifetime_vars, clip_vars, draw_vars, iframe_vars, text_vars>>

\* create and link the program, check it with debug_assertions, delete the
\* two shader objects and return
GlShader_new_link_program ==
    /\ shader_pc = "link"
    /\ LET shader_objects == { o \in shader_created : o.kind = "shader" }
           program_id == GlObject("program", create_name(gl_objects))
           failed == shader_env.debug_assertions
                     /\ is_some(get_gl_program_error(shader_env.links))
       IN /\ shader_created' = shader_created \cup {program_id}
          /\ shader_stages' = Append(shader_stages, "link")
          /\ IF failed
             THEN /\ gl_objects' = (gl_objects \cup {program_id}) \ (shader_objects \cup {program_id})
                  /\ shader_result' = Some(Err("Link"))
             ELSE /\ gl_objects' = (gl_objects \cup {program_id}) \ shader_objects
                  /\ shader_result' = Some(Ok(program_id))
    /\ shader_pc' = "returned"
    /\ UNCHANGED shader_env
    /\ UNCHANGED <<registry_vars, order_vars, scroll_vars, frame_vars, style_vars, callback_vars,
                   virtual_vars, lifetime_vars, clip_vars, draw_vars, iframe_vars, text_vars>>

----------------------------------------------------------------------------
(* GlShader::new: properties *)

\* the stage of GlShader::new that fails first in this environment, if any
FailingStage ==
    IF ~shader_env.shader_compiler THEN "NoShaderCompiler"
    ELSE IF ~shader_env.vertex_compiles THEN "Compile::Vertex"
    ELSE IF ~shader_env.fragment_compiles THEN "Compile::Fragment"
    ELSE IF ~shader_env.links THEN "Link"
    ELSE "none"
StagesUpTo(stage) ==
    IF stage = "NoShaderCompiler" THEN <<>>
    ELSE IF stage = "Compile::Vertex" THEN <<"vertex">>
    ELSE IF stage = "Compile::Fragment" THEN <<"vertex", "fragment">>
    ELSE <<"vertex", "fragment", "link">>

\* C18: when GlShader::new returns an error no object created during the call
\* is alive; the stage that fails is returned as that stage's error and no
\* later stage is attempted.
C18_ShaderNewFailsAtomically ==
    shader_pc = "returned" =>
        /\ shader_result.val.tag = "Err" => gl_objects \cap shader_created = {}
        /\ FailingStage # "none" =>
               /\ shader_result.val = Err(FailingStage)
               /\ shader_stages = StagesUpTo(FailingStage)

----------------------------------------------------------------------------
(* GPU texture callbacks during layout: azul/display_list.rs *)

GlStates ==
    [framebuffer : {0, 1}, framebuffer_srgb : BOOLEAN, multisample : BOOLEAN,
     texture_2d : {0, 1}]
\* the state the hidden context is in before the first callback
GlStateDefault ==
    [framebuffer |-> 0, framebuffer_srgb |-> FALSE, multisample |-> FALSE, texture_2d |-> 0]

\* faulty variant: only the framebuffer binding is reset
reset_framebuffer_only(gl) ==
    [gl EXCEPT !.framebuffer = 0]

\* bind_framebuffer(gl::FRAMEBUFFER, 0); disable(gl::FRAMEBUFFER_SRGB);
\* disable(gl::MULTISAMPLE)
reset_framebuffer_and_srgb(gl) ==
    [gl EXCEPT !.framebuffer = 0, !.framebuffer_srgb = FALSE, !.multisample = FALSE]

CallbackIdle ==
    /\ gl_state = GlStateDefault
    /\ gltexture_callbacks = <<>>
    /\ callback_left = <<>>
    /\ solved_textures = EmptyMap
    /\ callback_pc = "idle"

\* scan_ui_state_for_gltexture_callbacks found up to two callbacks
CallbackInit ==
    /\ gl_state = GlStateDefault
    /\ gltexture_callbacks \in { <<>>, <<1>>, <<1, 2>> }
    /\ callback_left = <<>>
    /\ solved_textures = EmptyMap
    /\ callback_pc = "gltextures"

\* one iteration of `for (node_id, cb, ptr) in gltexture_callbacks`: the
\* callback runs, leaves the context in any state and returns a texture or
\* nothing; the state is reset; the texture is stored
gltexture_callback ==
    /\ callback_pc = "gltextures"
    /\ gltexture_callbacks # <<>>
    /\ \E left \in GlStates, tex \in {None, Some("texture")} :
          LET node_id == Head(gltexture_callbacks)
          IN /\ callback_left' = Append(callback_left, [node_id |-> node_id, gl |-> left,
                                                        texture |-> tex])
             /\ gl_state' = reset_framebuffer_and_srgb(left)
             /\ solved_textures' = IF is_some(tex)
                                   THEN MapInsert(solved_textures, node_id, tex.val)
                                   ELSE solved_textures
    /\ gltexture_callbacks' = Tail(gltexture_callbacks)
    /\ UNCHANGED callback_pc
    /\ UNCHANGED <<registry_vars, order_vars, scroll_vars, frame_vars, style_vars, shader_vars,
                   virtual_vars, lifetime_vars, clip_vars, draw_vars, iframe_vars, text_vars>>

\* the loop is over; the iframe callbacks and the rest of the frame follow
gltexture_callbacks_done ==
    /\ callback_pc = "gltextures"
    /\ gltexture_callbacks = <<>>
    /\ callback_pc' = "iframes"
    /\ UNCHANGED <<gl_state, gltexture_callbacks, callback_left, solved_textures>>
    /\ UNCHANGED <<registry_vars, order_vars, scroll_vars, frame_vars, style_vars, shader_vars,
                   virtual_vars, lifetime_vars, clip_vars, draw_vars, iframe_vars, text_vars>>

----------------------------------------------------------------------------
(* GPU texture callbacks: properties *)

\* C19: whenever a callback has been invoked, before the next callback and
\* before the rest of the frame the framebuffer binding is 0 and
\* FRAMEBUFFER_SRGB and MULTISAMPLE are disabled, whatever the callback left
\* behind and whether or not it returned a texture.
C19_StateResetAfterCallback ==
    callback_left # <<>> =>
        /\ gl_state.framebuffer = 0
        /\ ~gl_state.framebuffer_srgb
        /\ ~gl_state.multisample

\* two callbacks ran: one returned nothing and left another framebuffer bound,
\* the other returned a texture and left both flags enabled
C19_Witness ==
    /\ callback_pc = "iframes"
    /\ Len(callback_left) = 2
    /\ is_none(callback_left[1].texture)
    /\ callback_left[1].gl.framebuffer # 0
    /\ is_some(callback_left[2].texture)
    /\ callback_left[2].gl.framebuffer_srgb
    /\ callback_left[2].gl.multisample

----------------------------------------------------------------------------
(* Stand-in driver: azul-core/gl.rs *)

\* the methods of `impl Gl for VirtualGlDriver`
VirtualGlDriverMethods ==
    { "get_type", "buffer_data_untyped", "buffer_sub_data_untyped",
      "map_buffer", "map_buffer_range", "unmap_buffer", "tex_buffer",
      "shader_source", "read_buffer", "read_pixels_into_buffer",
      "read_pixels", "read_pixels_into_pbo", "sample_coverage",
      "polygon_offset", "pixel_store_i", "gen_buffers",
      "gen_renderbuffers", "gen_framebuffers", "gen_textures",
      "gen_vertex_arrays", "gen_queries", "begin_query", "end_query",
      "query_counter", "get_query_object_iv", "get_query_object_uiv",
      "get_query_object_i64v", "get_query_object_ui64v", "delete_queries",
      "delete_vertex_arrays", "delete_buffers", "delete_renderbuffers",
      "delete_framebuffers", "delete_textures",
      "framebuffer_renderbuffer", "renderbuffer_storage", "depth_func",
      "active_texture", "attach_shader", "bind_attrib_location",
      "get_uniform_iv", "get_uniform_fv", "get_uniform_block_index",
      "get_uniform_indices", "bind_buffer_base", "bind_buffer_range",
      "uniform_block_binding", "bind_buffer", "bind_vertex_array",
      "bind_renderbuffer", "bind_framebuffer", "bind_texture",
      "draw_buffers", "tex_image_2d", "compressed_tex_image_2d",
      "compressed_tex_sub_image_2d", "tex_image_3d", "copy_tex_image_2d",
      "copy_tex_sub_image_2d", "copy_tex_sub_image_3d",
      "tex_sub_image_2d", "tex_sub_image_2d_pbo", "tex_sub_image_3d",
      "tex_sub_image_3d_pbo", "tex_storage_2d", "tex_storage_3d",
      "get_tex_image_into_buffer", "copy_image_sub_data",
      "invalidate_framebuffer", "invalidate_sub_framebuffer",
      "get_integer_v", "get_integer_64v", "get_integer_iv",
      "get_integer_64iv", "get_boolean_v", "get_float_v",
      "get_framebuffer_attachment_parameter_iv",
      "get_renderbuffer_parameter_iv", "get_tex_parameter_iv",
      "get_tex_parameter_fv", "tex_parameter_i", "tex_parameter_f",
      "framebuffer_texture_2d", "framebuffer_texture_layer",
      "blit_framebuffer", "vertex_attrib_4f", "vertex_attrib_pointer_f32",
      "vertex_attrib_pointer", "vertex_attrib_i_pointer",
      "vertex_attrib_divisor", "viewport", "scissor", "line_width",
      "use_program", "validate_program", "draw_arrays",
      "draw_arrays_instanced", "draw_elements", "draw_elements_instanced",
      "blend_color", "blend_func", "blend_func_separate",
      "blend_equation", "blend_equation_separate", "color_mask",
      "cull_face", "front_face", "enable", "disable", "hint",
      "is_enabled", "is_shader", "is_texture", "is_framebuffer",
      "is_renderbuffer", "check_frame_buffer_status",
      "enable_vertex_attrib_array", "disable_vertex_attrib_array",
      "uniform_1f", "uniform_1fv", "uniform_1i", "uniform_1iv",
      "uniform_1ui", "uniform_2f", "uniform_2fv", "uniform_2i",
      "uniform_2iv", "uniform_2ui", "uniform_3f", "uniform_3fv",
      "uniform_3i", "uniform_3iv", "uniform_3ui", "uniform_4f",
      "uniform_4i", "uniform_4iv", "uniform_4ui", "uniform_4fv",
      "uniform_matrix_2fv", "uniform_matrix_3fv", "uniform_matrix_4fv",
      "depth_mask", "depth_range", "get_active_attrib",
      "get_active_uniform", "get_active_uniforms_iv",
      "get_active_uniform_block_i", "get_active_uniform_block_iv",
      "get_active_uniform_block_name", "get_attrib_location",
      "get_frag_data_location", "get_uniform_location",
      "get_program_info_log", "get_program_iv", "get_program_binary",
      "program_binary", "program_parameter_i", "get_vertex_attrib_iv",
      "get_vertex_attrib_fv", "get_vertex_attrib_pointer_v",
      "get_buffer_parameter_iv", "get_shader_info_log", "get_string",
      "get_string_i", "get_shader_iv", "get_shader_precision_format",
      "compile_shader", "create_program", "delete_program",
      "create_shader", "delete_shader", "detach_shader", "link_program",
      "clear_color", "clear", "clear_depth", "clear_stencil", "flush",
      "finish", "get_error", "stencil_mask", "stencil_mask_separate",
      "stencil_func", "stencil_func_separate", "stencil_op",
      "stencil_op_separate", "egl_image_target_texture2d_oes",
      "generate_mipmap", "insert_event_marker_ext",
      "push_group_marker_ext", "pop_group_marker_ext",
      "debug_message_insert_khr", "push_debug_group_khr",
      "pop_debug_group_khr", "fence_sync", "client_wait_sync",
      "wait_sync", "delete_sync", "texture_range_apple",
      "gen_fences_apple", "delete_fences_apple", "set_fence_apple",
      "finish_fence_apple", "test_fence_apple", "test_object_apple",
      "finish_object_apple", "get_frag_data_index", "blend_barrier_khr",
      "bind_frag_data_location_indexed", "get_debug_messages",
      "provoking_vertex_angle" }

\* how a call ends: it returns to the caller, or the thread panics
Returns(value) == [ends |-> "return", value |-> value]
Panics(message) == [ends |-> "panic", message |-> message]

\* fn unimplemented() -> !
unimplemented == Panics("You cannot call OpenGL functions on the VirtualGlDriver")

\* faulty variant: the type query answers instead of panicking
VirtualGlDriver_answering_get_type(method) ==
    IF method = "get_type" THEN Returns("GlType::Gl") ELSE unimplemented

\* the body of a method of the VirtualGlDriver
VirtualGlDriver_call(method) == unimplemented

VirtualIdle ==
    virtual_gl_call = [method |-> "none", outcome |-> Returns("none")]

\* a caller holding the VirtualGlDriver calls one of its methods
VirtualGlDriver_method ==
    /\ virtual_gl_call.method = "none"
    /\ \E method \in VirtualGlDriverMethods :
          virtual_gl_call' = [method |-> method, outcome |-> VirtualGlDriver_call(method)]
    /\ UNCHANGED <<registry_vars, order_vars, scroll_vars, frame_vars, style_vars, shader_vars,
                   callback_vars, lifetime_vars, clip_vars, draw_vars, iframe_vars, text_vars>>

\* the panic unwinds out of the caller (nothing is returned to it)
VirtualGlDriver_unwind ==
    /\ virtual_gl_call.method \in VirtualGlDriverMethods
    /\ virtual_gl_call.outcome.ends = "panic"
    /\ virtual_gl_call' = [method |-> "aborted", outcome |-> virtual_gl_call.outcome]
    /\ UNCHANGED <<registry_vars, order_vars, scroll_vars, frame_vars, style_vars, shader_vars,
                   callback_vars, lifetime_vars, clip_vars, draw_vars, iframe_vars, text_vars>>

----------------------------------------------------------------------------
(* Stand-in driver: properties *)

----------------------------------------------------------------------------
(* Lifetime of a Texture whose gl_context is a given driver: azul-core/gl.rs *)

\* the drivers a Texture can hold in gl_context: Rc<dyn Gl>
GlContexts == {"GlFns", "VirtualGlDriver"}
\* the raw texture ids of the Texture values the sequence builds
LifetimeTextureIds == {1, 2}

\* Gl::delete_textures on the driver the Texture holds
Gl_delete_textures(gl_context) ==
    IF gl_context = "VirtualGlDriver" THEN VirtualGlDriver_call("delete_textures")
    ELSE Returns("unit")

\* impl Drop for Texture: self.gl_context.delete_textures(&[self.texture_id]),
\* run for the Texture values a registry call dropped. A panic in the first
\* drop unwinds; a panic in a second drop during the unwinding aborts.
Texture_drop(dropped) ==
    virtual_gl_call' =
        IF dropped = 0 THEN virtual_gl_call
        ELSE [method |-> "delete_textures", outcome |-> Gl_delete_textures(texture_gl_context)]

\* the program is still running: no driver call has panicked
LifetimeRunning == virtual_gl_call.outcome.ends = "return"

LifetimeIdle ==
    /\ texture_gl_context = "GlFns"
    /\ texture_lookup = None
LifetimeInit ==
    /\ texture_gl_context \in GlContexts
    /\ texture_lookup = None

\* Texture { texture_id, size, gl_context } built as a struct literal (the fields
\* are public) and handed to insert_into_active_gl_textures
Texture_register ==
    /\ LifetimeRunning
    /\ Len(registered) < Cardinality(LifetimeTextureIds)
    /\ \E pipeline_id \in PipelineIds, epoch \in Epochs :
          LET n == Len(registered) + 1
          IN insert_into_active_gl_textures(pipeline_id, epoch,
                 Texture(n, [width |-> n, height |-> 1], n))
    /\ Texture_drop(last_call'.dropped)
    /\ UNCHANGED <<texture_gl_context, texture_lookup>>
    /\ UNCHANGED <<order_vars, scroll_vars, frame_vars, style_vars, shader_vars, callback_vars,
                   clip_vars, draw_vars, iframe_vars, text_vars>>
\* get_opengl_texture(image_key): reads the table, calls nothing on the driver
Texture_lookup ==
    /\ LifetimeRunning
    /\ \E i \in Registrations : \E found \in get_opengl_texture(registered[i].id) :
          texture_lookup' = Some([image_key |-> registered[i].id, found |-> found])
    /\ UNCHANGED <<texture_gl_context, registry_vars, virtual_vars>>
    /\ UNCHANGED <<order_vars, scroll_vars, frame_vars, style_vars, shader_vars, callback_vars,
                   clip_vars, draw_vars, iframe_vars, text_vars>>
Texture_evict_older_than ==
    /\ LifetimeRunning
    /\ \E pipeline_id \in PipelineIds, epoch \in Watermarks :
          gl_textures_remove_epochs_from_pipeline(pipeline_id, epoch)
    /\ Texture_drop(last_call'.dropped)
    /\ UNCHANGED <<texture_gl_context, texture_lookup>>
    /\ UNCHANGED <<order_vars, scroll_vars, frame_vars, style_vars, shader_vars, callback_vars,
                   clip_vars, draw_vars, iframe_vars, text_vars>>
Texture_evict_pipeline ==
    /\ LifetimeRunning
    /\ \E pipeline_id \in PipelineIds : gl_textures_remove_active_pipeline(pipeline_id)
    /\ Texture_drop(last_call'.dropped)
    /\ UNCHANGED <<texture_gl_context, texture_lookup>>
    /\ UNCHANGED <<order_vars, scroll_vars, frame_vars, style_vars, shader_vars, callback_vars,
                   clip_vars, draw_vars, iframe_vars, text_vars>>
Texture_clear_cache ==
    /\ LifetimeRunning
    /\ gl_textures_clear_opengl_cache
    /\ Texture_drop(last_call'.dropped)
    /\ UNCHANGED <<texture_gl_context, texture_lookup>>
    /\ UNCHANGED <<order_vars, scroll_vars, frame_vars, style_vars, shader_vars, callback_vars,
                   clip_vars, draw_vars, iframe_vars, text_vars>>

----------------------------------------------------------------------------
(* Texture lifetime: properties *)

\* C21: a Texture whose gl_context is a VirtualGlDriver can be registered,
\* looked up, evicted from the registry and dropped, and the program reaches
\* the end of that sequence without aborting: once the registered texture has
\* been looked up and an eviction has dropped it, no driver call has panicked.
C21_VirtualTextureLifetimeCompletes ==
    ( /\ texture_gl_context = "VirtualGlDriver"
      /\ is_some(texture_lookup)
      /\ last_call.op \in {"remove_epochs", "remove_pipeline", "clear"}
      /\ last_call.dropped > 0 )
        => LifetimeRunning

----------------------------------------------------------------------------
(* Clipping of children: azul/display_list.rs *)

\* RectLayout::overflow_x / overflow_y, an Option<CssPropertyValue<Overflow>>:
\* not set, one of the CSS-wide values, or an exact Overflow
ClipOverflowValues ==
    {"unset", "Auto", "None", "Initial", "Inherit", "Scroll", "Hidden", "Visible"}
RectLayouts == [overflow_x : ClipOverflowValues, overflow_y : ClipOverflowValues]
\* RectLayout::default(): no property is set
RectLayout_default == [overflow_x |-> "unset", overflow_y |-> "unset"]

\* faulty variant: children are clipped unless both axes are visible
clips_unless_both_visible(layout) ==
    ~(is_horizontal_overflow_visible(layout) /\ is_vertical_overflow_visible(layout))
node_needs_to_clip_children(layout) ==
    ~(is_horizontal_overflow_visible(layout) \/ is_vertical_overflow_visible(layout))

ClipIdle ==
    /\ clip_layout = RectLayout_default
    /\ clip_result = None
ClipInit ==
    /\ clip_layout \in RectLayouts
    /\ clip_result = None

\* a caller asks whether the node with this layout clips its children
node_needs_to_clip_children_call ==
    /\ is_none(clip_result)
    /\ clip_result' = Some(node_needs_to_clip_children(clip_layout))
    /\ UNCHANGED clip_layout
    /\ UNCHANGED <<registry_vars, order_vars, scroll_vars, frame_vars, style_vars, shader_vars,
                   callback_vars, virtual_vars, lifetime_vars, draw_vars, iframe_vars,
                   text_vars>>

----------------------------------------------------------------------------
(* Clipping of children: properties *)

\* the overflow values that are not `visible`
NotVisible == ClipOverflowValues \ {"Visible"}

\* C22: node_needs_to_clip_children(layout) is true exactly when neither the
\* horizontal nor the vertical overflow of the layout is visible: true for the
\* default layout and for hidden/hidden, false for visible/visible.
C22_ClipsUnlessAnAxisIsVisible ==
    is_some(clip_result) =>
        /\ clip_result.val = (clip_layout.overflow_x \in NotVisible
                                /\ clip_layout.overflow_y \in NotVisible)
        /\ clip_layout = RectLayout_default => clip_result.val = TRUE
        /\ clip_layout = [overflow_x |-> "Hidden", overflow_y |-> "Hidden"]
              => clip_result.val = TRUE
        /\ clip_layout = [overflow_x |-> "Visible", overflow_y |-> "Visible"]
              => clip_result.val = FALSE

\* the function has answered for a layout with one visible and one hidden axis
C22_Witness ==
    /\ clip_layout = [overflow_x |-> "Visible", overflow_y |-> "Hidden"]
    /\ clip_result = Some(FALSE)

----------------------------------------------------------------------------
(* GlShader::draw: azul-core/gl.rs *)

\* names of objects that exist before the call (0 is "nothing bound")
PriorNames == {0, 1}
\* the program of the GlShader that draws
GlShader_program_id == 2
\* the `buffers` lists: no layer, one layer, two layers
DrawBuffers ==
    { <<>>,
      <<[vao_id |-> 2, index_buffer_id |-> 2]>>,
      <<[vao_id |-> 2, index_buffer_id |-> 2], [vao_id |-> 3, index_buffer_id |-> 3]>> }
\* the context before the call: any binding of an object that exists, and
\* one framebuffer, renderbuffer and texture alive
DrawGlStates ==
    [framebuffer : PriorNames, renderbuffer : PriorNames, texture_2d : PriorNames,
     vertex_array : PriorNames, array_buffer : PriorNames, element_array_buffer : PriorNames,
     program : PriorNames, multisample : BOOLEAN,
     framebuffers : {{1}}, renderbuffers : {{1}}, textures : {{1}}]
\* glGetIntegerv(GL_TEXTURE_2D) is not a binding query: a core profile raises
\* INVALID_ENUM and writes nothing (the 0 stays), a compatibility profile
\* writes whether fixed-function 2D texturing is enabled
DrawEnvs == [texture_2d_query : {0, 1}]

\* the lowest name the driver has not handed out (gen_textures(1)[0], ...)
gen_name(alive) == CHOOSE n \in 1..(Cardinality(alive) + 1) :
                      n \notin alive /\ \A m \in 1..(n - 1) : m \in alive

\* Gl::get_integer_v(pname, result) / get_boolean_v: what is left in result[0],
\* which holds 0 before the call
get_integer_v(gl, pname) ==
    CASE pname = "MULTISAMPLE" -> IF gl.multisample THEN 1 ELSE 0
      [] pname = "ARRAY_BUFFER_BINDING" -> gl.array_buffer
      [] pname = "ELEMENT_ARRAY_BUFFER_BINDING" -> gl.element_array_buffer
      [] pname = "CURRENT_PROGRAM" -> gl.program
      [] pname = "VERTEX_ARRAY_BINDING" -> gl.vertex_array
      [] pname = "TEXTURE_2D" -> draw_env.texture_2d_query
      \* gl::RENDERBUFFER and gl::FRAMEBUFFER are targets, not state names:
      \* INVALID_ENUM, nothing is written
      [] OTHER -> 0

bind_framebuffer(gl, framebuffer) ==
    [gl EXCEPT !.framebuffer = framebuffer,
               !.framebuffers = IF framebuffer = 0 THEN @ ELSE @ \cup {framebuffer}]
bind_renderbuffer(gl, renderbuffer) ==
    [gl EXCEPT !.renderbuffer = renderbuffer,
               !.renderbuffers = IF renderbuffer = 0 THEN @ ELSE @ \cup {renderbuffer}]
\* Gl::bind_texture(target, texture): a target that is not a texture target
\* raises INVALID_ENUM and binds nothing
bind_texture(gl, target, texture) ==
    IF target = "TEXTURE_2D"
    THEN [gl EXCEPT !.texture_2d = texture,
                    !.textures = IF texture = 0 THEN @ ELSE @ \cup {texture}]
    ELSE gl
bind_vertex_array(gl, vao) == [gl EXCEPT !.vertex_array = vao]
bind_buffer(gl, target, buffer) ==
    IF target = "ELEMENT_ARRAY_BUFFER" THEN [gl EXCEPT !.element_array_buffer = buffer]
    ELSE [gl EXCEPT !.array_buffer = buffer]
use_program(gl, program) == [gl EXCEPT !.program = program]
enable_multisample(gl) == [gl EXCEPT !.multisample = TRUE]
disable_multisample(gl) == [gl EXCEPT !.multisample = FALSE]
\* deleting the bound object reverts the binding to 0
delete_framebuffers(gl, framebuffer) ==
    [gl EXCEPT !.framebuffers = @ \ {framebuffer},
               !.framebuffer = IF @ = framebuffer THEN 0 ELSE @]
delete_renderbuffers(gl, renderbuffer) ==
    [gl EXCEPT !.renderbuffers = @ \ {renderbuffer},
               !.renderbuffer = IF @ = renderbuffer THEN 0 ELSE @]

NoLocals == [current_multisample |-> 0, current_index_buffer |-> 0,
             current_vertex_buffer |-> 0, current_vertex_array_object |-> 0,
             current_program |-> 0, current_framebuffers |-> 0,
             current_renderbuffers |-> 0, current_texture_2d |-> 0,
             texture_id |-> 0, framebuffer_id |-> 0, depthbuffer_id |-> 0]

DrawIdle ==
    /\ draw_gl = [framebuffer |-> 0, renderbuffer |-> 0, texture_2d |-> 0, vertex_array |-> 0,
                  array_buffer |-> 0, element_array_buffer |-> 0, program |-> 0,
                  multisample |-> FALSE, framebuffers |-> {}, renderbuffers |-> {},
                  textures |-> {}]
    /\ draw_entry = draw_gl
    /\ draw_buffers = <<>>
    /\ draw_env = [texture_2d_query |-> 0]
    /\ draw_locals = NoLocals
    /\ draw_returned = None
    /\ draw_pc = "idle"
DrawInit ==
    /\ draw_gl \in DrawGlStates
    /\ draw_entry = draw_gl
    /\ draw_buffers \in DrawBuffers
    /\ draw_env \in DrawEnvs
    /\ draw_locals = NoLocals
    /\ draw_returned = None
    /\ draw_pc = "entry"

\* "save the OpenGL state"
GlShader_draw_save ==
    /\ draw_pc = "entry"
    /\ draw_locals' =
         [draw_locals EXCEPT
            !.current_multisample = get_integer_v(draw_gl, "MULTISAMPLE"),
            !.current_vertex_buffer = get_integer_v(draw_gl, "ARRAY_BUFFER_BINDING"),
            !.current_index_buffer = get_integer_v(draw_gl, "ELEMENT_ARRAY_BUFFER_BINDING"),
            !.current_program = get_integer_v(draw_gl, "CURRENT_PROGRAM"),
            !.current_vertex_array_object = get_integer_v(draw_gl, "VERTEX_ARRAY_BINDING"),
            !.current_renderbuffers = get_integer_v(draw_gl, "RENDERBUFFER"),
            !.current_framebuffers = get_integer_v(draw_gl, "FRAMEBUFFER"),
            !.current_texture_2d = get_integer_v(draw_gl, "TEXTURE_2D")]
    /\ draw_pc' = "saved"
    /\ UNCHANGED <<draw_gl, draw_entry, draw_buffers, draw_env, draw_returned>>
    /\ UNCHANGED <<registry_vars, order_vars, scroll_vars, frame_vars, style_vars, shader_vars,
                   callback_vars, virtual_vars, lifetime_vars, clip_vars, iframe_vars,
                   text_vars>>

\* "1. Create the texture + framebuffer", use_program, disable(MULTISAMPLE)
GlShader_draw_create ==
    /\ draw_pc = "saved"
    /\ LET texture_id == gen_name(draw_gl.textures)
           framebuffer_id == gen_name(draw_gl.framebuffers)
           depthbuffer_id == gen_name(draw_gl.renderbuffers)
           bound == bind_renderbuffer(
                        bind_texture(bind_framebuffer(draw_gl, framebuffer_id),
                                     "TEXTURE_2D", texture_id),
                        depthbuffer_id)
       IN /\ draw_gl' = disable_multisample(use_program(bound, GlShader_program_id))
          /\ draw_locals' = [draw_locals EXCEPT !.texture_id = texture_id,
                                                !.framebuffer_id = framebuffer_id,
                                                !.depthbuffer_id = depthbuffer_id]
    /\ draw_pc' = "created"
    /\ UNCHANGED <<draw_entry, draw_buffers, draw_env, draw_returned>>
    /\ UNCHANGED <<registry_vars, order_vars, scroll_vars, frame_vars, style_vars, shader_vars,
                   callback_vars, virtual_vars, lifetime_vars, clip_vars, iframe_vars,
                   text_vars>>

\* the context after the layers 1..n of `buffers` have been drawn
RECURSIVE DrawLayers(_, _, _)
DrawLayers(gl, buffers, n) ==
    IF n = 0 THEN gl
    ELSE LET vertex_buffer == buffers[n]
         IN bind_buffer(bind_vertex_array(DrawLayers(gl, buffers, n - 1), vertex_buffer.vao_id),
                        "ELEMENT_ARRAY_BUFFER", vertex_buffer.index_buffer_id)

\* "Draw the actual layers"
GlShader_draw_layers ==
    /\ draw_pc = "created"
    /\ draw_gl' = DrawLayers(draw_gl, draw_buffers, Len(draw_buffers))
    /\ draw_pc' = "drawn"
    /\ UNCHANGED <<draw_entry, draw_buffers, draw_env, draw_locals, draw_returned>>
    /\ UNCHANGED <<registry_vars, order_vars, scroll_vars, frame_vars, style_vars, shader_vars,
                   callback_vars, virtual_vars, lifetime_vars, clip_vars, iframe_vars,
                   text_vars>>

\* "Reset the OpenGL state to what it was before"
GlShader_draw_reset ==
    /\ draw_pc = "drawn"
    /\ LET l == draw_locals
           g1 == IF l.current_multisample = 1 THEN enable_multisample(draw_gl) ELSE draw_gl
           g2 == bind_vertex_array(g1, l.current_vertex_array_object)
           g3 == bind_framebuffer(g2, l.current_framebuffers)
           g4 == bind_texture(g3, "TEXTURE_2D", l.current_texture_2d)
           g5 == bind_texture(g4, "RENDERBUFFER", l.current_renderbuffers)
           g6 == bind_buffer(g5, "ELEMENT_ARRAY_BUFFER", l.current_index_buffer)
           g7 == bind_buffer(g6, "ARRAY_BUFFER", l.current_vertex_buffer)
       IN draw_gl' = use_program(g7, l.current_program)
    /\ draw_pc' = "reset"
    /\ UNCHANGED <<draw_entry, draw_buffers, draw_env, draw_locals, draw_returned>>
    /\ UNCHANGED <<registry_vars, order_vars, scroll_vars, frame_vars, style_vars, shader_vars,
                   callback_vars, virtual_vars, lifetime_vars, clip_vars, iframe_vars,
                   text_vars>>

\* delete_framebuffers, delete_renderbuffers and the Texture returned
GlShader_draw_return ==
    /\ draw_pc = "reset"
    /\ draw_gl' = delete_renderbuffers(
                      delete_framebuffers(draw_gl, draw_locals.framebuffer_id),
                      draw_locals.depthbuffer_id)
    /\ draw_returned' = Some(draw_locals.texture_id)
    /\ draw_pc' = "returned"
    /\ UNCHANGED <<draw_entry, draw_buffers, draw_env, draw_locals>>
    /\ UNCHANGED <<registry_vars, order_vars, scroll_vars, frame_vars, style_vars, shader_vars,
                   callback_vars, virtual_vars, lifetime_vars, clip_vars, iframe_vars,
                   text_vars>>

----------------------------------------------------------------------------
(* GlShader::draw: properties *)

\* the fields of the context draw saves with a query that names the state
RestoredBindings ==
    /\ draw_gl.vertex_array = draw_entry.vertex_array
    /\ draw_gl.array_buffer = draw_entry.array_buffer
    /\ draw_gl.element_array_buffer = draw_entry.element_array_buffer
    /\ draw_gl.program = draw_entry.program
    /\ draw_gl.multisample = draw_entry.multisample
\* the temporary objects are gone, the returned texture is the only new object
TemporariesDeleted ==
    /\ draw_gl.framebuffers = draw_entry.framebuffers
    /\ draw_gl.renderbuffers = draw_entry.renderbuffers
    /\ draw_gl.textures = draw_entry.textures \cup {draw_returned.val}
    /\ draw_returned.val \notin draw_entry.textures

\* C23: when GlShader::draw returns, the bound framebuffer, renderbuffer, 2D
\* texture, vertex array object, array buffer, element array buffer, current
\* program and the MULTISAMPLE flag each equal their value at entry, for every
\* prior state and every list of buffers; the temporary framebuffer and depth
\* renderbuffer have been deleted and only the returned texture remains alive.
C23_DrawRestoresGlState ==
    draw_pc = "returned" =>
        /\ draw_gl.framebuffer = draw_entry.framebuffer
        /\ draw_gl.renderbuffer = draw_entry.renderbuffer
        /\ draw_gl.texture_2d = draw_entry.texture_2d
        /\ RestoredBindings
        /\ TemporariesDeleted

----------------------------------------------------------------------------
(* Embedded DOMs (IFrame nodes): azul/display_list.rs *)

MaxDoms == 3   \* DOMs the IFrame callbacks return before they return None
\* calls of displaylist_handle_rect per display list: more than the nodes of MaxDoms DOMs
MaxVisits == 4 * MaxDoms

\* the DOMs a callback (or the application) returns: node types by node id,
\* and the ContentGroup children of every node, in rendering order
DomShapes ==
    { [node_types |-> (0 :> "Div") @@ (1 :> "Div"),
       children |-> (0 :> <<1>>) @@ (1 :> <<>>)],
      [node_types |-> (0 :> "Div") @@ (1 :> "IFrame"),
       children |-> (0 :> <<1>>) @@ (1 :> <<>>)],
      [node_types |-> (0 :> "Div") @@ (1 :> "IFrame") @@ (2 :> "IFrame"),
       children |-> (0 :> <<1, 2>>) @@ (1 :> <<>>) @@ (2 :> <<>>)],
      [node_types |-> (0 :> "IFrame") @@ (1 :> "Div"),
       children |-> (0 :> <<1>>) @@ (1 :> <<>>)] }

\* the DomId of the window's own DOM
DomId_ROOT == 0
Dom(dom_id) == ui_state_cache[dom_id + 1]
DomIds == { d - 1 : d \in DOMAIN ui_state_cache }
NodesOf(dom_id) == DOMAIN Dom(dom_id).node_types

\* the elements of a sequence that satisfy a test, in order
RECURSIVE IFrameNodesFrom(_, _, _)
IFrameNodesFrom(shape, node, last) ==
    IF node > last THEN <<>>
    ELSE (IF shape.node_types[node] = "IFrame" THEN <<node>> ELSE <<>>)
            \o IFrameNodesFrom(shape, node + 1, last)
\* scan_ui_state_for_iframe_callbacks: the IFrame nodes of a DOM, by node id
scan_ui_state_for_iframe_callbacks(dom_id, shape) ==
    LET last == CHOOSE n \in DOMAIN shape.node_types :
                    \A m \in DOMAIN shape.node_types : m <= n
        nodes == IFrameNodesFrom(shape, 0, last)
    IN [i \in 1..Len(nodes) |-> <<dom_id, nodes[i]>>]

\* DomId::new(): an id no DOM has yet
DomId_new == Len(ui_state_cache)

IFrameIdle ==
    /\ ui_state_cache = <<>>
    /\ iframe_mappings = EmptyMap
    /\ iframe_callbacks = <<>>
    /\ walk_stack = <<>>
    /\ walk_visits = <<>>
    /\ walk_entered = {}
    /\ iframe_pc = "idle"
\* do_layout_for_display_list is called with the DOM of the window
IFrameInit ==
    /\ \E shape \in DomShapes :
          /\ ui_state_cache = <<shape>>
          /\ iframe_callbacks = scan_ui_state_for_iframe_callbacks(DomId_ROOT, shape)
    /\ iframe_mappings = EmptyMap
    /\ walk_stack = <<>>
    /\ walk_visits = <<>>
    /\ walk_entered = {}
    /\ iframe_pc = "layout"

\* recurse: the callback of the next IFrame node returns a DOM; the DOM gets a
\* new DomId, the mapping is recorded and the recursion descends into it
layout_recurse_iframe_dom ==
    /\ iframe_pc = "layout"
    /\ iframe_callbacks # <<>>
    /\ Len(ui_state_cache) < MaxDoms
    /\ \E iframe_dom \in DomShapes :
          LET iframe_dom_id == DomId_new
          IN /\ ui_state_cache' = Append(ui_state_cache, iframe_dom)
             /\ iframe_mappings' = MapInsert(iframe_mappings, Head(iframe_callbacks),
                                             iframe_dom_id)
             /\ iframe_callbacks' =
                    scan_ui_state_for_iframe_callbacks(iframe_dom_id, iframe_dom)
                        \o Tail(iframe_callbacks)
    /\ UNCHANGED <<walk_stack, walk_visits, walk_entered, iframe_pc>>
    /\ UNCHANGED <<registry_vars, order_vars, scroll_vars, frame_vars, style_vars, shader_vars,
                   callback_vars, virtual_vars, lifetime_vars, clip_vars, draw_vars, text_vars>>
\* recurse: the callback of the next IFrame node returns None
layout_recurse_iframe_none ==
    /\ iframe_pc = "layout"
    /\ iframe_callbacks # <<>>
    /\ iframe_callbacks' = Tail(iframe_callbacks)
    /\ UNCHANGED <<ui_state_cache, iframe_mappings, walk_stack, walk_visits, walk_entered,
                   iframe_pc>>
    /\ UNCHANGED <<registry_vars, order_vars, scroll_vars, frame_vars, style_vars, shader_vars,
                   callback_vars, virtual_vars, lifetime_vars, clip_vars, draw_vars, text_vars>>
\* the layout is done; the display list of the window's DOM is built from the
\* root of its ContentGroup
layout_return ==
    /\ iframe_pc = "layout"
    /\ iframe_callbacks = <<>>
    /\ walk_stack' = <<<<DomId_ROOT, NodeId_ZERO>>>>
    /\ iframe_pc' = "build"
    /\ UNCHANGED <<ui_state_cache, iframe_mappings, iframe_callbacks, walk_visits,
                   walk_entered>>
    /\ UNCHANGED <<registry_vars, order_vars, scroll_vars, frame_vars, style_vars, shader_vars,
                   callback_vars, virtual_vars, lifetime_vars, clip_vars, draw_vars, text_vars>>

\* faulty variant: the recursion keeps the DomId it was called with
iframe_recursion_keeps_dom_id(dom_id, iframe_dom_id) == dom_id
\* DisplayListParametersRef { dom_id: iframe_dom_id, .. *referenced_content }
iframe_recursion_dom_id(dom_id, iframe_dom_id) == iframe_dom_id

\* the ContentGroup the recursion on an IFrame node starts from: the one stored
\* for the DomId the recursion runs under
iframe_content_group_root(dom_id) == <<dom_id, NodeId_ZERO>>

\* the IFrame arm of displaylist_handle_rect: the recursive call it makes
iframe_recursion(dom_id, rect_idx) ==
    IF /\ Dom(dom_id).node_types[rect_idx] = "IFrame"
       /\ <<dom_id, rect_idx>> \in DOMAIN iframe_mappings
    THEN <<iframe_content_group_root(
               iframe_recursion_dom_id(dom_id, iframe_mappings[<<dom_id, rect_idx>>]))>>
    ELSE <<>>

\* push_rectangles_into_displaylist for one ContentGroup: displaylist_handle_rect
\* on its root (which recurses into an embedded DOM), then its children in order
push_rectangles_into_displaylist_group ==
    /\ iframe_pc = "build"
    /\ walk_stack # <<>>
    /\ Len(walk_visits) < MaxVisits
    /\ LET dom_id == Head(walk_stack)[1]
           rect_idx == Head(walk_stack)[2]
           embedded == iframe_recursion(dom_id, rect_idx)
           child_groups == Dom(dom_id).children[rect_idx]
       IN /\ walk_visits' = Append(walk_visits, <<dom_id, rect_idx>>)
          /\ walk_entered' = walk_entered \cup
                { [from |-> <<dom_id, rect_idx>>, to |-> embedded[i][1]] :
                      i \in 1..Len(embedded) }
          /\ walk_stack' = embedded
                \o [i \in 1..Len(child_groups) |-> <<dom_id, child_groups[i]>>]
                \o Tail(walk_stack)
    /\ UNCHANGED <<ui_state_cache, iframe_mappings, iframe_callbacks, iframe_pc>>
    /\ UNCHANGED <<registry_vars, order_vars, scroll_vars, frame_vars, style_vars, shader_vars,
                   callback_vars, virtual_vars, lifetime_vars, clip_vars, draw_vars, text_vars>>
\* the outermost call returns the display list
push_rectangles_into_displaylist_done ==
    /\ iframe_pc = "build"
    /\ walk_stack = <<>>
    /\ iframe_pc' = "done"
    /\ UNCHANGED <<ui_state_cache, iframe_mappings, iframe_callbacks, walk_stack, walk_visits,
                   walk_entered>>
    /\ UNCHANGED <<registry_vars, order_vars, scroll_vars, frame_vars, style_vars, shader_vars,
                   callback_vars, virtual_vars, lifetime_vars, clip_vars, draw_vars, text_vars>>

----------------------------------------------------------------------------
(* Embedded DOMs: properties *)

\* the DOMs the walk can reach from the window's DOM through mapped IFrame nodes
RECURSIVE ReachableDoms(_, _)
ReachableDoms(doms, n) ==
    IF n = 0 THEN doms
    ELSE ReachableDoms(doms \cup { iframe_mappings[k] :
                                     k \in { k \in DOMAIN iframe_mappings : k[1] \in doms } },
                       n - 1)
ReachableNodes ==
    UNION { { <<d, n>> : n \in NodesOf(d) } : d \in ReachableDoms({DomId_ROOT}, MaxDoms) }
VisitedOnce == \A i, j \in 1..Len(walk_visits) : walk_visits[i] = walk_visits[j] => i = j

----------------------------------------------------------------------------
(* Text input widget: azul-widgets/text_input.rs *)

MaxTextLen == 3   \* characters a text holds

\* the characters typed: 'a' (1 byte in UTF-8) and e with acute accent, U+00E9
\* (2 bytes in UTF-8); Return pushes a newline
Chars == {"a", "e_acute"}
Newline == "\n"
\* char::len_utf8
len_utf8(c) == IF c = "e_acute" THEN 2 ELSE 1

\* String::len: the length in bytes
RECURSIVE String_len(_)
String_len(text) == IF text = <<>> THEN 0 ELSE len_utf8(Head(text)) + String_len(Tail(text))
String_push(text, c) == Append(text, c)
String_pop(text) == IF text = <<>> THEN text ELSE SubSeq(text, 1, Len(text) - 1)
\* text.chars().take(n) / text.chars().skip(n), collected
chars_take(text, n) == SubSeq(text, 1, IF n < Len(text) THEN n ELSE Len(text))
chars_skip(text, n) == SubSeq(text, (IF n < Len(text) THEN n ELSE Len(text)) + 1, Len(text))
\* String::is_char_boundary
is_char_boundary(text, index) ==
    \E k \in 0..Len(text) : String_len(SubSeq(text, 1, k)) = index
\* String::truncate(new_len): nothing if new_len is not less than the length,
\* a panic if new_len is not on a char boundary
String_truncate(text, new_len) ==
    IF new_len >= String_len(text) THEN Returns(text)
    ELSE IF ~is_char_boundary(text, new_len)
    THEN Panics("assertion failed: self.is_char_boundary(new_len)")
    ELSE Returns(SubSeq(text, 1, CHOOSE k \in 0..Len(text) :
                                     String_len(SubSeq(text, 1, k)) = new_len))

\* Selection::All, Selection::FromTo(start..end)
Selection_All == [kind |-> "All", start |-> 0, end |-> 0]
Selection_FromTo(start, end) == [kind |-> "FromTo", start |-> start, end |-> end]

TextInputState(text, selection, cursor_pos) ==
    [text |-> text, selection |-> selection, cursor_pos |-> cursor_pos]
\* impl Default for TextInputState
TextInputState_default == TextInputState(<<>>, None, 0)

\* CallbackReturn
Redraw == "Redraw"
DontRedraw == "DontRedraw"
\* what a handler leaves: the state and how the call ended
Handled(state, outcome) == [state |-> state, outcome |-> outcome]

\* KeyboardState: the fields the handlers read
VirtualKeyCodes == {"Back", "Return", "Home", "End", "Escape", "Right", "Left", "A", "C"}
KeyboardState(current_char, current_virtual_keycode, ctrl_down) ==
    [current_char |-> current_char, current_virtual_keycode |-> current_virtual_keycode,
     ctrl_down |-> ctrl_down]
TextInputKeyboardStates ==
    { KeyboardState(c, None, FALSE) : c \in {None} \cup { Some(ch) : ch \in Chars } }
VirtualKeyDownKeyboardStates ==
    { KeyboardState(None, k, ctrl) :
        k \in {None} \cup { Some(key) : key \in VirtualKeyCodes }, ctrl \in BOOLEAN }

\* TextInputState::delete_selection
delete_selection(state, start, end, new_text) ==
    LET max == IF end > String_len(state.text) THEN String_len(state.text) ELSE end
    IN IF max = String_len(state.text)
       THEN LET truncated == String_truncate(state.text, start)
            IN IF truncated.ends = "panic" THEN Handled(state, truncated)
               ELSE Handled([state EXCEPT !.text = truncated.value, !.cursor_pos = start],
                            Returns(Redraw))
       ELSE LET a == chars_take(state.text, start)
                b == IF is_some(new_text) THEN String_push(a, new_text.val) ELSE a
                cur == IF is_some(new_text) THEN start + 1 ELSE start
            IN Handled([state EXCEPT !.text = b \o chars_skip(state.text, end),
                                     !.cursor_pos = cur],
                       Returns(Redraw))

\* TextInputState::handle_on_text_input
handle_on_text_input(state, keyboard_state) ==
    IF is_none(keyboard_state.current_char) THEN Handled(state, Returns(DontRedraw))
    ELSE LET c == keyboard_state.current_char.val
         IN IF is_none(state.selection)
            \* both branches of `cursor_pos == text.len()` push the character
            THEN Handled([state EXCEPT !.text = String_push(state.text, c),
                                       !.cursor_pos = state.cursor_pos + 1],
                         Returns(Redraw))
            ELSE IF state.selection.val.kind = "All"
            THEN Handled(TextInputState(<<c>>, None, 1), Returns(Redraw))
            ELSE delete_selection(state, state.selection.val.start, state.selection.val.end,
                                  Some(c))

\* the Back arm without a selection
back_without_selection(state) ==
    IF state.cursor_pos = String_len(state.text)
    THEN [state EXCEPT !.text = String_pop(state.text),
                       !.cursor_pos = IF @ = 0 THEN 0 ELSE @ - 1]
    ELSE LET a == chars_take(state.text, state.cursor_pos)
             new == Min(String_len(state.text), state.cursor_pos + 1)
         IN [state EXCEPT !.text = a \o chars_skip(state.text, new),
                          !.cursor_pos = IF @ = 0 THEN 0 ELSE @ - 1]

\* TextInputState::handle_on_virtual_key_down
handle_on_virtual_key_down(state, keyboard_state) ==
    IF is_none(keyboard_state.current_virtual_keycode)
    THEN Handled(state, Returns(DontRedraw))
    ELSE LET last_keycode == keyboard_state.current_virtual_keycode.val
         IN CASE last_keycode = "Back" ->
                   IF is_none(state.selection)
                   THEN Handled(back_without_selection(state), Returns(Redraw))
                   ELSE IF state.selection.val.kind = "All"
                   THEN Handled(TextInputState(<<>>, None, 0), Returns(Redraw))
                   ELSE delete_selection(state, state.selection.val.start,
                                         state.selection.val.end, None)
              [] last_keycode = "Return" ->
                   Handled([state EXCEPT !.text = String_push(state.text, Newline),
                                         !.cursor_pos = state.cursor_pos + 1],
                           Returns(Redraw))
              [] last_keycode = "Home" ->
                   Handled([state EXCEPT !.cursor_pos = 0, !.selection = None],
                           Returns(Redraw))
              [] last_keycode = "End" ->
                   Handled([state EXCEPT !.cursor_pos = String_len(state.text),
                                         !.selection = None],
                           Returns(Redraw))
              [] last_keycode = "Escape" ->
                   Handled([state EXCEPT !.selection = None], Returns(Redraw))
              [] last_keycode = "Right" ->
                   Handled([state EXCEPT !.cursor_pos =
                                Min(String_len(state.text), state.cursor_pos + 1)],
                           Returns(Redraw))
              [] last_keycode = "Left" ->
                   Handled([state EXCEPT !.cursor_pos =
                                Min(Max(0, IF @ = 0 THEN 0 ELSE @ - 1), @ + 1)],
                           Returns(Redraw))
              [] last_keycode = "A" /\ keyboard_state.ctrl_down ->
                   Handled([state EXCEPT !.selection = Some(Selection_All)], Returns(Redraw))
              [] OTHER -> Handled(state, Returns(Redraw))

\* the callbacks a TextInput can hold
TextCallbacks ==
    {"default_on_text_input", "default_on_virtual_key_down", "callback_1", "callback_2"}
\* impl Default for TextInput (the state is text_input_state)
TextInput_default ==
    [on_text_input |-> "default_on_text_input",
     on_virtual_key_down |-> "default_on_virtual_key_down"]

\* TextInput::on_text_input
TextInput_on_text_input(widget, callback) == [widget EXCEPT !.on_text_input = callback]
\* TextInput::on_virtual_key_down: Self { on_text_input: callback, .. self }
TextInput_on_virtual_key_down(widget, callback) == [widget EXCEPT !.on_text_input = callback]

NoEvent == [call |-> "none"]

TextIdle ==
    /\ text_input_state = TextInputState_default
    /\ text_input_widget = TextInput_default
    /\ text_event = NoEvent
    /\ text_outcome = Returns(DontRedraw)
\* TextInput::default(): the default state behind the default callbacks
TextInit ==
    /\ text_input_state = TextInputState_default
    /\ text_input_widget = TextInput_default
    /\ text_event = NoEvent
    /\ text_outcome = Returns(DontRedraw)

\* the texts, cursor positions and selections an application can build with
\* TextInputState::new(..).with_cursor_pos(..).with_selection(..)
RECURSIVE TextsOfLen(_)
TextsOfLen(n) ==
    IF n = 0 THEN {<<>>} ELSE { Append(t, c) : t \in TextsOfLen(n - 1), c \in Chars }
Texts == UNION { TextsOfLen(n) : n \in 0..MaxTextLen }
TextSelections ==
    {None, Some(Selection_All)}
        \cup { Some(Selection_FromTo(start, end)) :
                 <<start, end>> \in { <<s, e>> \in (0..MaxTextLen) \X (0..MaxTextLen) : s <= e } }
TextEditInit ==
    /\ \E text \in Texts, cursor_pos \in 0..MaxTextLen, selection \in TextSelections :
          text_input_state = TextInputState(text, selection, cursor_pos)
    /\ text_input_widget = TextInput_default
    /\ text_event = NoEvent
    /\ text_outcome = Returns(DontRedraw)

\* the handler has not panicked (the window would be gone)
TextRunning == text_outcome.ends = "return"

\* one call of a handler through its default callback, on texts that fit
TextHandled(call, keyboard_state, handled) ==
    /\ Len(handled.state.text) <= MaxTextLen
    /\ text_input_state' = handled.state
    /\ text_outcome' = handled.outcome
    /\ text_event' = [call |-> call, keyboard_state |-> keyboard_state]
    /\ UNCHANGED text_input_widget

\* TextInput::default_on_text_input
default_on_text_input ==
    /\ TextRunning
    /\ \E keyboard_state \in TextInputKeyboardStates :
          TextHandled("on_text_input", keyboard_state,
                      handle_on_text_input(text_input_state, keyboard_state))
    /\ UNCHANGED <<registry_vars, order_vars, scroll_vars, frame_vars, style_vars, shader_vars,
                   callback_vars, virtual_vars, lifetime_vars, clip_vars, draw_vars,
                   iframe_vars>>
\* TextInput::default_on_virtual_key_down
default_on_virtual_key_down ==
    /\ TextRunning
    /\ \E keyboard_state \in VirtualKeyDownKeyboardStates :
          TextHandled("on_virtual_key_down", keyboard_state,
                      handle_on_virtual_key_down(text_input_state, keyboard_state))
    /\ UNCHANGED <<registry_vars, order_vars, scroll_vars, frame_vars, style_vars, shader_vars,
                   callback_vars, virtual_vars, lifetime_vars, clip_vars, draw_vars,
                   iframe_vars>>

\* the builder calls: widget.on_text_input(callback)
TextInput_builder_on_text_input ==
    /\ \E callback \in TextCallbacks :
          /\ text_input_widget' = TextInput_on_text_input(text_input_widget, callback)
          /\ text_event' = [call |-> "TextInput::on_text_input", callback |-> callback]
    /\ UNCHANGED <<text_input_state, text_outcome>>
    /\ UNCHANGED <<registry_vars, order_vars, scroll_vars, frame_vars, style_vars, shader_vars,
                   callback_vars, virtual_vars, lifetime_vars, clip_vars, draw_vars,
                   iframe_vars>>
\* widget.on_virtual_key_down(callback)
TextInput_builder_on_virtual_key_down ==
    /\ \E callback \in TextCallbacks :
          /\ text_input_widget' = TextInput_on_virtual_key_down(text_input_widget, callback)
          /\ text_event' = [call |-> "TextInput::on_virtual_key_down", callback |-> callback]
    /\ UNCHANGED <<text_input_state, text_outcome>>
    /\ UNCHANGED <<registry_vars, order_vars, scroll_vars, frame_vars, style_vars, shader_vars,
                   callback_vars, virtual_vars, lifetime_vars, clip_vars, draw_vars,
                   iframe_vars>>

----------------------------------------------------------------------------
(* Text input widget: properties *)

\* C27: starting from the default TextInputState, after any sequence of
\* handle_on_text_input and handle_on_virtual_key_down events the cursor
\* stays inside the text: 0 <= cursor_pos <= length of text (String::len).
C27_CursorInsideText ==
    /\ 0 <= text_input_state.cursor_pos
    /\ text_input_state.cursor_pos <= String_len(text_input_state.text)

\* the step is a call of handle_on_virtual_key_down with this key
IsKeyDown(key) ==
    /\ text_event' # text_event \/ text_input_state' # text_input_state
    /\ text_event'.call = "on_virtual_key_down"
    /\ text_event'.keyboard_state.current_virtual_keycode = Some(key)
\* the step is a call of handle_on_text_input with a character
IsTextInput ==
    /\ text_event' # text_event \/ text_input_state' # text_input_state
    /\ text_event'.call = "on_text_input"
    /\ is_some(text_event'.keyboard_state.current_char)
\* the text without its character at index i (counted from 0)
WithoutIndex(text, i) == SubSeq(text, 1, i) \o SubSeq(text, i + 2, Len(text))

\* C28: with no selection and 0 < cursor_pos < length of text, the Back key
\* removes exactly one character, the one immediately before the cursor
\* (index cursor_pos - 1), keeps all others in order, and moves cursor_pos
\* left by one.
C28_BackRemovesCharBeforeCursor ==
    [][ ( /\ IsKeyDown("Back")
          /\ is_none(text_input_state.selection)
          /\ 0 < text_input_state.cursor_pos
          /\ text_input_state.cursor_pos < Len(text_input_state.text) )
        => /\ text_input_state'.text
                = WithoutIndex(text_input_state.text, text_input_state.cursor_pos - 1)
           /\ text_input_state'.cursor_pos = text_input_state.cursor_pos - 1 ]_vars

\* C29: typing a character c while a Selection::FromTo(start..end) with
\* start <= end <= length of text is active replaces the selected range by c:
\* the text becomes text[0..start] + c + text[end..], cursor_pos becomes
\* start + 1 and the selection is cleared, also when the range reaches the end.
C29_TypingReplacesSelection ==
    [][ ( /\ IsTextInput
          /\ is_some(text_input_state.selection)
          /\ text_input_state.selection.val.kind = "FromTo"
          /\ text_input_state.selection.val.start <= text_input_state.selection.val.end
          /\ text_input_state.selection.val.end <= Len(text_input_state.text) )
        => /\ text_input_state'.text
                = SubSeq(text_input_state.text, 1, text_input_state.selection.val.start)
                    \o <<text_event'.keyboard_state.current_char.val>>
                    \o SubSeq(text_input_state.text, text_input_state.selection.val.end + 1,
                              Len(text_input_state.text))
           /\ text_input_state'.cursor_pos = text_input_state.selection.val.start + 1
           /\ text_input_state'.selection = None ]_vars

\* C30: TextInput::on_virtual_key_down(cb) sets the widget's virtual-key-down
\* callback to cb and leaves its text-input callback and its state unchanged,
\* just as TextInput::on_text_input(cb) sets only the text-input callback.
C30_BuilderSetsItsOwnCallback ==
    [][ /\ (text_event' # text_event /\ text_event'.call = "TextInput::on_virtual_key_down")
           => /\ text_input_widget'.on_virtual_key_down = text_event'.callback
              /\ text_input_widget'.on_text_input = text_input_widget.on_text_input
              /\ text_input_state' = text_input_state
        /\ (text_event' # text_event /\ text_event'.call = "TextInput::on_text_input")
           => /\ text_input_widget'.on_text_input = text_event'.callback
              /\ text_input_widget'.on_virtual_key_down = text_input_widget.on_virtual_key_down
              /\ text_input_state' = text_input_state ]_vars

----------------------------------------------------------------------------
(* Specifications *)

Init == RegistryInit /\ OrderIdle /\ ScrollIdle /\ FrameIdle /\ StyleIdle
    /\ ShaderIdle /\ CallbackIdle /\ VirtualIdle /\ LifetimeIdle /\ ClipIdle /\ DrawIdle /\ IFrameIdle /\ TextIdle
Next ==
    \/ Register
    \/ EvictOlderThan
    \/ EvictPipeline
    \/ ClearAll
Spec == Init /\ [][Next]_vars

InitOrder == RegistryInit /\ OrderInit /\ ScrollIdle /\ FrameIdle /\ StyleIdle
    /\ ShaderIdle /\ CallbackIdle /\ VirtualIdle /\ LifetimeIdle /\ ClipIdle /\ DrawIdle /\ IFrameIdle /\ TextIdle
SpecOrder == InitOrder /\ [][OrderNext]_vars

InitScroll == RegistryInit /\ OrderIdle /\ ScrollInit /\ FrameIdle /\ StyleIdle
    /\ ShaderIdle /\ CallbackIdle /\ VirtualIdle /\ LifetimeIdle /\ ClipIdle /\ DrawIdle /\ IFrameIdle /\ TextIdle
SpecScroll == InitScroll /\ [][ScrollNext]_vars

InitScrollIds == RegistryInit /\ OrderIdle /\ ScrollIdsInit /\ FrameIdle /\ StyleIdle
    /\ ShaderIdle /\ CallbackIdle /\ VirtualIdle /\ LifetimeIdle /\ ClipIdle /\ DrawIdle /\ IFrameIdle /\ TextIdle
NextScrollIds ==
    \/ get_nodes_that_need_scroll_clip_parent
    \/ get_nodes_that_need_scroll_clip_return
    \/ get_nodes_that_need_scroll_clip_next_frame
SpecScrollIds == InitScrollIds /\ [][NextScrollIds]_vars

InitFrame == RegistryInit /\ OrderIdle /\ ScrollIdle /\ FrameInit /\ StyleIdle
    /\ ShaderIdle /\ CallbackIdle /\ VirtualIdle /\ LifetimeIdle /\ ClipIdle /\ DrawIdle /\ IFrameIdle /\ TextIdle
NextFrame ==
    \/ push_rectangles_into_displaylist
    \/ push_rectangles_into_displaylist_return
SpecFrame == InitFrame /\ [][NextFrame]_vars

InitStyle == RegistryInit /\ OrderIdle /\ ScrollIdle /\ FrameIdle /\ StyleInit
    /\ ShaderIdle /\ CallbackIdle /\ VirtualIdle /\ LifetimeIdle /\ ClipIdle /\ DrawIdle /\ IFrameIdle /\ TextIdle
NextStyle ==
    \/ display_list_from_ui_description_transform
    \/ display_list_from_ui_description_return
SpecStyle == InitStyle /\ [][NextStyle]_vars

InitShader == RegistryInit /\ OrderIdle /\ ScrollIdle /\ FrameIdle /\ StyleIdle
    /\ ShaderInit /\ CallbackIdle /\ VirtualIdle /\ LifetimeIdle /\ ClipIdle /\ DrawIdle /\ IFrameIdle /\ TextIdle
NextShader ==
    \/ GlShader_new_shader_compiler
    \/ GlShader_new_vertex_shader
    \/ GlShader_new_fragment_shader
    \/ GlShader_new_link_program
SpecShader == InitShader /\ [][NextShader]_vars

InitCallback == RegistryInit /\ OrderIdle /\ ScrollIdle /\ FrameIdle /\ StyleIdle
    /\ ShaderIdle /\ CallbackInit /\ VirtualIdle /\ LifetimeIdle /\ ClipIdle /\ DrawIdle /\ IFrameIdle /\ TextIdle
NextCallback ==
    \/ gltexture_callback
    \/ gltexture_callbacks_done
SpecCallback == InitCallback /\ [][NextCallback]_vars

InitVirtual == RegistryInit /\ OrderIdle /\ ScrollIdle /\ FrameIdle /\ StyleIdle
    /\ ShaderIdle /\ CallbackIdle /\ VirtualIdle /\ LifetimeIdle /\ ClipIdle /\ DrawIdle /\ IFrameIdle /\ TextIdle
NextVirtual ==
    \/ VirtualGlDriver_method
    \/ VirtualGlDriver_unwind
SpecVirtual == InitVirtual /\ [][NextVirtual]_vars

InitLifetime == RegistryInit /\ OrderIdle /\ ScrollIdle /\ FrameIdle /\ StyleIdle
    /\ ShaderIdle /\ CallbackIdle /\ VirtualIdle /\ LifetimeInit /\ ClipIdle /\ DrawIdle /\ IFrameIdle /\ TextIdle
NextLifetime ==
    \/ Texture_register
    \/ Texture_lookup
    \/ Texture_evict_older_than
    \/ Texture_evict_pipeline
    \/ Texture_clear_cache
SpecLifetime == InitLifetime /\ [][NextLifetime]_vars

InitClip == RegistryInit /\ OrderIdle /\ ScrollIdle /\ FrameIdle /\ StyleIdle
    /\ ShaderIdle /\ CallbackIdle /\ VirtualIdle /\ LifetimeIdle /\ ClipInit /\ DrawIdle /\ IFrameIdle /\ TextIdle
NextClip ==
    \/ node_needs_to_clip_children_call
SpecClip == InitClip /\ [][NextClip]_vars

InitDraw == RegistryInit /\ OrderIdle /\ ScrollIdle /\ FrameIdle /\ StyleIdle
    /\ ShaderIdle /\ CallbackIdle /\ VirtualIdle /\ LifetimeIdle /\ ClipIdle /\ DrawInit /\ IFrameIdle /\ TextIdle
NextDraw ==
    \/ GlShader_draw_save
    \/ GlShader_draw_create
    \/ GlShader_draw_layers
    \/ GlShader_draw_reset
    \/ GlShader_draw_return
SpecDraw == InitDraw /\ [][NextDraw]_vars

InitIFrame == RegistryInit /\ OrderIdle /\ ScrollIdle /\ FrameIdle /\ StyleIdle
    /\ ShaderIdle /\ CallbackIdle /\ VirtualIdle /\ LifetimeIdle /\ ClipIdle /\ DrawIdle
    /\ IFrameInit /\ TextIdle
NextIFrame ==
    \/ layout_recurse_iframe_dom
    \/ layout_recurse_iframe_none
    \/ layout_return
    \/ push_rectangles_into_displaylist_group
    \/ push_rectangles_into_displaylist_done
SpecIFrame == InitIFrame /\ [][NextIFrame]_vars

InitTextInput == RegistryInit /\ OrderIdle /\ ScrollIdle /\ FrameIdle /\ StyleIdle
    /\ ShaderIdle /\ CallbackIdle /\ VirtualIdle /\ LifetimeIdle /\ ClipIdle /\ DrawIdle
    /\ IFrameIdle /\ TextInit
NextTextInput ==
    \/ default_on_text_input
    \/ default_on_virtual_key_down
SpecTextInput == InitTextInput /\ [][NextTextInput]_vars

InitTextEdit == RegistryInit /\ OrderIdle /\ ScrollIdle /\ FrameIdle /\ StyleIdle
    /\ ShaderIdle /\ CallbackIdle /\ VirtualIdle /\ LifetimeIdle /\ ClipIdle /\ DrawIdle
    /\ IFrameIdle /\ TextEditInit
SpecTextEdit == InitTextEdit /\ [][NextTextInput]_vars

NextTextBuilder ==
    \/ TextInput_builder_on_text_input
    \/ TextInput_builder_on_virtual_key_down
SpecTextBuilder == InitTextEdit /\ [][NextTextBuilder]_vars


====
